---- MODULE Spec2Model ----
(***************************************************************************)
(* Dynamic form serializer (src/Python/serializer-with-dynamic-fields.py): *)
(* version resolver, field builder, V1.0 / V1.1 visibility evaluation,     *)
(* to_internal_value, validate and update, as a state machine over one     *)
(* serializer bound to a template and (optionally) a Form instance.        *)
(* Acting-user tracking (src/Python/custom-middleware.py and               *)
(* src/Python/model-mixins.py) and the Settings singleton                  *)
(* (src/Python/django-models.py) are state machines of their own, over the *)
(* request threads, the model instances in memory and the tables.          *)
(***************************************************************************)
EXTENDS Integers, Sequences, FiniteSets, TLC

(***************************************************************************)
(* Python values.  Every value is a record of one shape, so that values of *)
(* different Python types can be compared:                                 *)
(*   none, bool (n = 1 / 0), int, str, qstr (a str whose text is s wrapped *)
(*   in double quotes), list (of str), file (an uploaded file).            *)
(***************************************************************************)
PyNone == [k |-> "none", n |-> 0, s |-> "", l |-> <<>>]
PyBool(b) == [k |-> "bool", n |-> IF b THEN 1 ELSE 0, s |-> "", l |-> <<>>]
PyTrue == PyBool(TRUE)
PyFalse == PyBool(FALSE)
PyInt(i) == [k |-> "int", n |-> i, s |-> "", l |-> <<>>]
PyStr(t) == [k |-> "str", n |-> 0, s |-> t, l |-> <<>>]
PyQStr(t) == [k |-> "qstr", n |-> 0, s |-> t, l |-> <<>>]
PyList(q) == [k |-> "list", n |-> 0, s |-> "", l |-> q]
PyFile(t) == [k |-> "file", n |-> 0, s |-> t, l |-> <<>>]

\* Python truthiness, as `not value` reads it.
Truthy(v) ==
    CASE v.k = "none" -> FALSE
      [] v.k \in {"bool", "int"} -> v.n # 0
      [] v.k = "str" -> v.s # ""
      [] v.k = "list" -> Len(v.l) > 0
      [] OTHER -> TRUE

\* Python ==: bool is an int (True == 1); values of unrelated types differ.
PyEq(a, b) ==
    CASE a.k \in {"bool", "int"} /\ b.k \in {"bool", "int"} -> a.n = b.n
      [] a.k = b.k -> a = b
      [] OTHER -> FALSE

\* `value in (...)` over a tuple of Python values.
PyIn(v, S) == \E x \in S : PyEq(v, x)

(***************************************************************************)
(* Visibility literals and equations.                                      *)
(***************************************************************************)
parse_visiblity_value(value) ==
    IF PyIn(value, {PyStr("true"), PyStr("True"), PyTrue}) THEN PyStr("True")
    ELSE IF PyIn(value, {PyStr("false"), PyStr("False"), PyFalse}) THEN PyStr("False")
    ELSE IF PyIn(value, {PyStr("null"), PyStr("None"), PyNone}) THEN PyStr("None")
    ELSE value

convert_visiblity_value(value) ==
    IF value = PyTrue THEN PyStr("True")
    ELSE IF value = PyFalse THEN PyStr("False")
    ELSE IF value = PyNone THEN PyStr("None")
    ELSE IF value.k = "int" THEN value
    ELSE IF value.k = "str" THEN PyQStr(value.s)
    ELSE PyQStr("<repr>")

\* What eval() makes of one formatted operand of the equation text: the bare
\* words True / False / None, a number, or a double-quoted string.  Any other
\* bare word is a NameError; templates here hold none.
EvalOperand(text) ==
    CASE text = PyStr("True") -> PyTrue
      [] text = PyStr("False") -> PyFalse
      [] text = PyStr("None") -> PyNone
      [] text.k = "int" -> text
      [] text.k = "qstr" -> PyStr(text.s)

\* eval('%s %s %s' % (parse(field_value), sign, parse(desired_value)))
build_visibility_equation(field_value, sign, desired_value) ==
    LET lhs == EvalOperand(parse_visiblity_value(field_value))
        rhs == EvalOperand(parse_visiblity_value(desired_value))
    IN  CASE sign = "==" -> PyEq(lhs, rhs)
          [] sign = "!=" -> ~PyEq(lhs, rhs)

(***************************************************************************)
(* Templates.  A clause is `visibility` meta: absent ("none"), the V1.0    *)
(* triplex [field, sign, literal] ("triplex"), or the V1.1 map of clause   *)
(* groups ("groups": `groups` holds the keys present in the map).  A meta  *)
(* key that may be missing is "absent" / "true" / "false".                 *)
(***************************************************************************)
NoClause ==
    [shape |-> "none", cond |-> <<"", "==", PyNone>>, groups |-> {},
     referral |-> <<>>, referrer |-> <<>>, template |-> <<>>]
Triplex(name, sign, literal) ==
    [NoClause EXCEPT !.shape = "triplex", !.cond = <<name, sign, literal>>]
Groups(present, referral, referrer, tmpl) ==
    [NoClause EXCEPT !.shape = "groups", !.groups = present,
                     !.referral = referral, !.referrer = referrer,
                     !.template = tmpl]

\* meta['representation'] without the visibility keys: `keys` are the keys
\* present among columns, label and __value_attributes; __value_attributes is
\* the dict in its own order, each entry a key and the attributes it merges
NoRepresentation ==
    [keys |-> {}, columns |-> 0, label |-> "", value_attributes |-> <<>>]

\* A FieldDefinition with an otherwise empty meta.
Field(name, type, section_id) ==
    [name |-> name, type |-> type, is_multi_checkbox |-> FALSE,
     section_id |-> section_id,
     required |-> "absent", visibility |-> NoClause,
     has_parent_field |-> FALSE, parent_field |-> "",
     is_switch |-> "absent",
     allow_null |-> "absent", allow_blank |-> "absent",
     options |-> <<>>, has_max_files |-> FALSE, max_files |-> 0,
     repr_behaviour |-> "absent", repr_visibility |-> NoClause,
     has_columns |-> FALSE, columns |-> 0, representation |-> NoRepresentation]

Section(id) ==
    [id |-> id, visibility |-> NoClause,
     repr_behaviour |-> "absent", repr_visibility |-> NoClause]

V10 == "1.0"
V11 == "1.1"

Tri(b) == IF b THEN "true" ELSE "false"

FieldNames(t) == {t.fields[j].name : j \in 1..Len(t.fields)}
HasField(t, name) == name \in FieldNames(t)
\* template.fields.filter(meta__name=name).first(); only used where it exists
FieldByName(t, name) ==
    t.fields[CHOOSE j \in 1..Len(t.fields) :
                 /\ t.fields[j].name = name
                 /\ \A h \in 1..(j - 1) : t.fields[h].name # name]
HasSection(t, id) == \E j \in 1..Len(t.sections) : t.sections[j].id = id
\* the first section of template.meta['sections'] with this id
SectionById(t, id) ==
    t.sections[CHOOSE j \in 1..Len(t.sections) :
                   /\ t.sections[j].id = id
                   /\ \A h \in 1..(j - 1) : t.sections[h].id # id]

(***************************************************************************)
(* Version resolver.                                                       *)
(***************************************************************************)
TemplateMetaSyntaxVersionError == "TemplateMetaSyntaxVersionError"

\* faulty variant, used to show the property below is sensitive to it: an unknown tag falls back to the latest strategy
get_form_serializer_class_for_Default(t) ==
    IF t.tmsv = V10 THEN "FormSerializerV10" ELSE "FormSerializerV11"

get_form_serializer_class_for(t) ==
    IF t.tmsv = V10 THEN "FormSerializerV10"
    ELSE IF t.tmsv = V11 THEN "FormSerializerV11"
    ELSE TemplateMetaSyntaxVersionError

get_form_representator_class_for(t) ==
    IF t.tmsv = V10 THEN "FormRepresentatorV10"
    ELSE IF t.tmsv = V11 THEN "FormRepresentatorV11"
    ELSE TemplateMetaSyntaxVersionError

\* FormSerializerV11 and both representators of V1.1 inherit the V1.1 rules.
IsV11(cls) == cls \in {"FormSerializerV11", "FormRepresentatorV11"}

(***************************************************************************)
(* Field builder.                                                          *)
(***************************************************************************)
is_conditional_field(cls, f) ==
    \/ f.visibility.shape # "none"
    \/ IsV11(cls) /\ f.has_parent_field

IsText(f) == f.type \in {"INPUT", "TEXTAREA"}

\* faulty variant, used to show the property below is sensitive to it: `required` copied from meta for conditional fields too
get_field_kwargs_MetaRequired(cls, f) ==
    LET required == f.required = "true"
        allow_null == IF f.allow_null = "absent" THEN ~required
                      ELSE f.allow_null = "true"
        allow_blank == IF ~IsText(f) THEN "absent"
                       ELSE IF f.allow_blank = "absent" THEN Tri(~required)
                       ELSE f.allow_blank
    IN  [required |-> required, allow_null |-> allow_null,
         allow_blank |-> allow_blank,
         choices |-> IF f.type \in {"RADIO", "SELECT"} THEN f.options ELSE <<>>]

\* kwargs of the serializer field; allow_blank is "absent" for non-text types
get_field_kwargs(cls, f) ==
    LET required == ~is_conditional_field(cls, f) /\ f.required = "true"
        allow_null == IF f.allow_null = "absent" THEN ~required
                      ELSE f.allow_null = "true"
        allow_blank == IF ~IsText(f) THEN "absent"
                       ELSE IF f.allow_blank = "absent" THEN Tri(~required)
                       ELSE f.allow_blank
    IN  [required |-> required, allow_null |-> allow_null,
         allow_blank |-> allow_blank,
         choices |-> IF f.type \in {"RADIO", "SELECT"} THEN f.options ELSE <<>>]

\* serializer_field_mapping / multi_checkbox_field
FieldClass(f) ==
    IF f.is_multi_checkbox THEN "DynamicJSONField"
    ELSE CASE f.type \in {"INPUT", "TEXTAREA"} -> "DynamicCharField"
           [] f.type = "CHECKBOX" -> "DynamicBooleanField"
           [] f.type \in {"RADIO", "SELECT"} -> "DynamicChoiceField"
           [] f.type = "FILE" -> "FileField"

build_field(cls, f, field_name) ==
    [field_name |-> field_name, class |-> FieldClass(f), kwargs |-> get_field_kwargs(cls, f)]

\* the dummy FieldDefinition built for the note of a file field
NoteField(f) == Field(f.name \o "_note", "INPUT", f.section_id)

FileFieldName(f, i) == f.name \o "[" \o ToString(i) \o "]"
NoteFieldName(f, i) == f.name \o "{note}[" \o ToString(i) \o "]"

MaxFilesOf(f) == IF f.has_max_files THEN f.max_files ELSE 1

\* the pairs built for range(max_files), from index i on
RECURSIVE FilePairs(_, _, _)
FilePairs(cls, f, i) ==
    IF i >= MaxFilesOf(f) THEN <<>>
    ELSE << build_field(cls, f, FileFieldName(f, i)),
            build_field(cls, NoteField(f), NoteFieldName(f, i)) >>
         \o FilePairs(cls, f, i + 1)

\* faulty variant, used to show the property below is sensitive to it: switch fields get a serializer field
RECURSIVE BuildFields_KeepsSwitch(_, _, _, _)
BuildFields_KeepsSwitch(cls, t, accept, j) ==
    IF j > Len(t.fields) THEN <<>>
    ELSE LET f == t.fields[j]
             here == IF f.type = "FILE"
                         THEN (IF accept THEN FilePairs(cls, f, 0) ELSE <<>>)
                     ELSE << build_field(cls, f, f.name) >>
         IN  here \o BuildFields_KeepsSwitch(cls, t, accept, j + 1)

\* get_fields(): the serializer fields in template order, from field j on
RECURSIVE BuildFields(_, _, _, _)
BuildFields(cls, t, accept, j) ==
    IF j > Len(t.fields) THEN <<>>
    ELSE LET f == t.fields[j]
             here == IF f.type = "FILE"
                         THEN (IF accept THEN FilePairs(cls, f, 0) ELSE <<>>)
                     ELSE IF f.is_switch # "absent" THEN <<>>
                     ELSE << build_field(cls, f, f.name) >>
         IN  here \o BuildFields(cls, t, accept, j + 1)

\* the names get_fields() appends to ignore_fields
RECURSIVE IgnoredNames(_, _, _)
IgnoredNames(t, accept, j) ==
    IF j > Len(t.fields) THEN <<>>
    ELSE LET f == t.fields[j]
             here == IF f.type = "FILE" /\ accept
                         THEN [h \in 1..(2 * MaxFilesOf(f)) |->
                                  IF h % 2 = 1 THEN FileFieldName(f, (h - 1) \div 2)
                                  ELSE NoteFieldName(f, (h - 1) \div 2)]
                     ELSE <<>>
         IN  here \o IgnoredNames(t, accept, j + 1)

(***************************************************************************)
(* State.                                                                  *)
(***************************************************************************)
VARIABLES
    template,       \* the FormTemplate (read-only)
    has_instance,   \* whether the serializer is bound to a Form instance
    store,          \* the Form's field values: field name -> value
    referral,       \* the Referral of the Form (bound or not) and its referrer
    parent,         \* the parent serializer (present or not) and its initial_data
    cls,            \* the serializer class the resolver picked, "" before
    accept_files,   \* __init__'s accept_files
    has_data,       \* whether the serializer has initial_data
    initial_data,   \* the submitted data: name -> value
    fields,         \* the serializer fields get_fields() built
    ignore_fields,  \* the names get_fields() marked as ignored
    idx,            \* position of the running loop (next field to handle)
    ret,            \* the validated map (to_internal_value's ret, validate's attrs)
    errors,         \* the error map of the running phase: name -> messages
    pc,             \* position of the serializer in its life cycle
    fault,          \* the exception, other than a validation error, that ended the call
    representator,  \* the representator class the resolver picked, "" before
    out,            \* the sections to_representation returned
    resubmitted,    \* whether initial_data was taken from a rendered tree
    thread,         \* GetActingUserMixin.thread: the attributes each thread sees
    handling,       \* the request each thread is handling, if any
    instances,      \* the instances of a TrackAddedUpdatedMixin model in memory
    table,          \* the table of that model: pk -> row
    now,            \* what timezone.now() returns next
    call,           \* the last call on the tracking side and how it ended
    settings,       \* the Settings objects in memory
    settings_table, \* the Settings table: pk -> row
    settings_call   \* the last call on a Settings object and how it ended

vars == << template, has_instance, store, referral, parent, cls, accept_files,
           has_data, initial_data, fields, ignore_fields, idx, ret, errors, pc,
           fault, representator, out, resubmitted, thread, handling, instances,
           table, now, call, settings, settings_table, settings_call >>

\* the state of the serializer and its form
form_vars == << template, has_instance, store, referral, parent, cls, accept_files,
                has_data, initial_data, fields, ignore_fields, idx, ret, errors, pc,
                fault, representator, out, resubmitted >>

\* the state of acting-user tracking
tracking_vars == << thread, handling, instances, table, now, call >>

\* the state of the Settings model
settings_vars == << settings, settings_table, settings_call >>

\* the state of the render path
render_vars == << representator, out, resubmitted >>

EmptyMap == [x \in {} |-> PyNone]
NoErrors == [x \in {} |-> <<>>]

\* dict.get(name, None)
Get(map, name) == IF name \in DOMAIN map THEN map[name] ELSE PyNone
\* map[name] = value
Put(map, name, value) ==
    [x \in DOMAIN map \cup {name} |-> IF x = name THEN value ELSE map[x]]

(***************************************************************************)
(* Field value lookup.                                                     *)
(***************************************************************************)
\* retrieve_field_value(serializer, field_name) on a serializer that has
\* initial_data `data` (if data_present) and a Form instance whose values are
\* `inst` (if inst_present)
retrieve_field_value(data_present, data, inst_present, inst, field_name) ==
    LET value == IF data_present THEN Get(data, field_name) ELSE PyNone
    IN  IF ~Truthy(value) /\ inst_present THEN Get(inst, field_name) ELSE value

RetrieveSelf(field_name) ==
    retrieve_field_value(has_data, initial_data, has_instance, store, field_name)

\* the parent serializer never has an instance
RetrieveParent(field_name) ==
    retrieve_field_value(parent.has_data, parent.initial_data, FALSE, EmptyMap, field_name)

\* whether the referenced field is a switch (its value is taken as True)
IsSwitchRef(name) ==
    HasField(template, name) /\ FieldByName(template, name).is_switch = "true"

(***************************************************************************)
(* V1.0 visibility.                                                        *)
(***************************************************************************)
get_meta_visibility10(f) == f.visibility

visibility_condition_met10(condition) ==
    IF condition.shape = "triplex"
        THEN LET c == condition.cond
                 field_value == IF IsSwitchRef(c[1]) THEN PyTrue ELSE RetrieveSelf(c[1])
             IN  build_visibility_equation(convert_visiblity_value(field_value), c[2], c[3])
    ELSE TRUE   \* None: `if condition:` is skipped

(***************************************************************************)
(* V1.1 visibility.  The subject of an evaluation is a FieldDefinition, a  *)
(* section (a dict of template.meta['sections']) or None (the result of a  *)
(* lookup that found nothing).  Results are "True", "False" or             *)
(* "RecursionError": the evaluators call each other without any record of  *)
(* the fields already visited, and the interpreter ends a call chain       *)
(* deeper than its recursion limit.                                        *)
(***************************************************************************)
RecursionLimit == 6

FieldObj(name) == [kind |-> "field", name |-> name]
SectionObj(id) == [kind |-> "section", name |-> id]
NoneObj == [kind |-> "none", name |-> ""]

\* template.fields.filter(meta__name=name).first()
LookupField(name) == IF HasField(template, name) THEN FieldObj(name) ELSE NoneObj

get_meta_visibility11(obj) ==
    CASE obj.kind = "field" -> FieldByName(template, obj.name).visibility
      [] obj.kind = "section" -> SectionById(template, obj.name).visibility
      [] OTHER -> NoClause

\* one triplex against a value already looked up
TriplexHolds(value, c) ==
    build_visibility_equation(convert_visiblity_value(value), c[2], c[3])

\* the loop of referral_visibility_condition_met, from condition j on
RECURSIVE ReferralLoop(_, _)
ReferralLoop(conds, j) ==
    IF j > Len(conds) THEN TRUE
    ELSE IF referral.bound
        THEN TriplexHolds(Get(referral.attrs, conds[j][1]), conds[j])
             /\ ReferralLoop(conds, j + 1)
    ELSE IF parent.present
        THEN TriplexHolds(RetrieveParent(conds[j][1]), conds[j])
             /\ ReferralLoop(conds, j + 1)
    ELSE FALSE

referral_visibility_condition_met(clause) ==
    IF clause.shape = "groups" /\ "referral" \in clause.groups
        THEN ReferralLoop(clause.referral, 1)
    ELSE TRUE

RECURSIVE ReferrerLoop(_, _)
ReferrerLoop(conds, j) ==
    IF j > Len(conds) THEN TRUE
    ELSE IF referral.bound /\ referral.has_referrer
        THEN TriplexHolds(Get(referral.referrer, conds[j][1]), conds[j])
             /\ ReferrerLoop(conds, j + 1)
    ELSE IF parent.present
        THEN TriplexHolds(RetrieveParent("referrer__" \o conds[j][1]), conds[j])
             /\ ReferrerLoop(conds, j + 1)
    ELSE FALSE

referrer_visibility_condition_met(clause) ==
    IF clause.shape = "groups" /\ "referrer" \in clause.groups
        THEN ReferrerLoop(clause.referrer, 1)
    ELSE TRUE

RECURSIVE TemplateLoop(_, _)
TemplateLoop(conds, j) ==
    IF j > Len(conds) THEN TRUE
    ELSE LET parent_value == IF IsSwitchRef(conds[j][1]) THEN PyTrue
                             ELSE RetrieveSelf(conds[j][1])
         IN  TriplexHolds(parent_value, conds[j]) /\ TemplateLoop(conds, j + 1)

template_visibility_condition_met(clause) ==
    IF clause.shape = "groups" /\ "template" \in clause.groups
        THEN TemplateLoop(clause.template, 1)
    ELSE TRUE

RECURSIVE visibility_condition_met11(_, _, _)
RECURSIVE parent_visibility_condition_met(_, _)

\* faulty variant, used to show the property below is sensitive to it: the section is checked, the parent field is not
parent_visibility_condition_met_SectionOnly(obj, depth) ==
    IF obj.kind # "field" THEN "True"
    ELSE LET f == FieldByName(template, obj.name)
         IN  IF HasSection(template, f.section_id)
                 THEN visibility_condition_met11(
                          SectionObj(f.section_id),
                          get_meta_visibility11(SectionObj(f.section_id)),
                          depth + 1)
             ELSE "True"

\* depth: the number of visibility_condition_met calls on the stack
parent_visibility_condition_met(obj, depth) ==
    IF obj.kind # "field" THEN "True"
    ELSE LET f == FieldByName(template, obj.name)
             section == IF HasSection(template, f.section_id)
                            THEN visibility_condition_met11(
                                     SectionObj(f.section_id),
                                     get_meta_visibility11(SectionObj(f.section_id)),
                                     depth + 1)
                        ELSE "True"
         IN  IF section # "True" THEN section
             ELSE IF f.has_parent_field
                 THEN LET par == LookupField(f.parent_field)
                      IN  visibility_condition_met11(par, get_meta_visibility11(par), depth + 1)
             ELSE "True"

visibility_condition_met11(obj, clause, depth) ==
    IF depth > RecursionLimit THEN "RecursionError"
    ELSE LET up == parent_visibility_condition_met(obj, depth)
         IN  IF up # "True" THEN up
             ELSE IF ~referrer_visibility_condition_met(clause) THEN "False"
             ELSE IF ~referral_visibility_condition_met(clause) THEN "False"
             ELSE IF ~template_visibility_condition_met(clause) THEN "False"
             ELSE "True"

\* the evaluator of the serializer class in use, on a field of the template
get_meta_visibility(c, f) ==
    IF IsV11(c) THEN get_meta_visibility11(FieldObj(f.name)) ELSE get_meta_visibility10(f)

visibility_condition_met(c, f) ==
    IF IsV11(c)
        THEN visibility_condition_met11(FieldObj(f.name), get_meta_visibility(c, f), 1)
    ELSE IF visibility_condition_met10(get_meta_visibility(c, f)) THEN "True" ELSE "False"

(***************************************************************************)
(* Error messages and the error map.                                       *)
(***************************************************************************)
Msg(text) == [msg |-> text, value |-> ""]
FIELD_REQUIRED_MSG == Msg("FIELD_REQUIRED_MSG")
NotAValidOption(v) == [msg |-> "is not a valid option", value |-> v]
ArrayRequired == Msg("A valid JSON array is required")

\* utils.merge_field(errors, name, msg): one more message under the field's name
merge_field(errs, name, m) ==
    Put(errs, name, IF name \in DOMAIN errs THEN Append(errs[name], m) ELSE << m >>)

\* utils.merge_required(errors, name)
merge_required(errs, name) == merge_field(errs, name, FIELD_REQUIRED_MSG)

(***************************************************************************)
(* to_internal_value: one serializer field against the submitted data.     *)
(* The outcome is a validated value, a validation error or SkipField.      *)
(***************************************************************************)
Validated(v) == [outcome |-> "value", value |-> v, error |-> Msg("")]
Failed(m) == [outcome |-> "error", value |-> PyNone, error |-> m]
SkipField == [outcome |-> "skip", value |-> PyNone, error |-> Msg("")]

SeqToSet(q) == {q[j] : j \in 1..Len(q)}

\* field.run_validation(field.get_value(data)) with the messages of
\* get_field_kwargs (null and blank read as FIELD_REQUIRED_MSG)
run_validation(fld, data) ==
    LET kw == fld.kwargs
        present == fld.field_name \in DOMAIN data
        v == Get(data, fld.field_name)
    IN  IF fld.class = "DynamicCharField" /\ present /\ v = PyStr("")
            THEN (IF kw.allow_blank = "true" THEN Validated(PyStr(""))
                  ELSE Failed(FIELD_REQUIRED_MSG))
        ELSE IF ~present
            THEN (IF kw.required THEN Failed(Msg("required")) ELSE SkipField)
        ELSE IF v = PyNone
            THEN (IF kw.allow_null THEN Validated(PyNone) ELSE Failed(FIELD_REQUIRED_MSG))
        ELSE CASE fld.class = "DynamicCharField" ->
                    IF v.k = "str" THEN Validated(v) ELSE Failed(Msg("invalid"))
               [] fld.class = "DynamicBooleanField" ->
                    IF v.k = "bool" THEN Validated(v) ELSE Failed(Msg("invalid"))
               [] fld.class = "DynamicChoiceField" ->
                    IF v.k = "str" /\ v.s \in SeqToSet(kw.choices) THEN Validated(v)
                    ELSE Failed(Msg("invalid_choice"))
               [] fld.class = "DynamicJSONField" -> Validated(v)
               [] fld.class = "FileField" ->
                    IF v.k = "file" THEN Validated(v) ELSE Failed(Msg("invalid"))

\* faulty variant, used to show the property below is sensitive to it: a value that failed its check is kept in ret
ToInternalValueStep_KeepsFailed(fld, data, r, errs) ==
    LET res == run_validation(fld, data)
    IN  CASE res.outcome = "error" ->
                [ret |-> Put(r, fld.field_name, Get(data, fld.field_name)),
                 errors |-> Put(errs, fld.field_name, << res.error >>)]
          [] res.outcome = "skip" -> [ret |-> r, errors |-> errs]
          [] res.outcome = "value" ->
                [ret |-> Put(r, fld.field_name, res.value), errors |-> errs]

\* one iteration of the loop of to_internal_value: [ret, errors] after it
ToInternalValueStep(fld, data, r, errs) ==
    LET res == run_validation(fld, data)
    IN  CASE res.outcome = "error" ->
                [ret |-> r, errors |-> Put(errs, fld.field_name, << res.error >>)]
          [] res.outcome = "skip" -> [ret |-> r, errors |-> errs]
          [] res.outcome = "value" ->
                [ret |-> Put(r, fld.field_name, res.value), errors |-> errs]

(***************************************************************************)
(* validate: one template field against attrs.                             *)
(***************************************************************************)
\* the messages of the option check, from element j of the list on
RECURSIVE OptionErrors(_, _, _, _, _)
OptionErrors(errs, name, values, allowed, j) ==
    IF j > Len(values) THEN errs
    ELSE OptionErrors(
             IF values[j] \in allowed THEN errs
             ELSE merge_field(errs, name, NotAValidOption(values[j])),
             name, values, allowed, j + 1)

\* faulty variant, used to show the property below is sensitive to it: the required error does not depend on the field being visible
RequireConditional_IgnoresVisibility(c, f, attrs, errs, visible) ==
    IF is_conditional_field(c, f)
        THEN LET is_required == f.required = "true"
                 has_value == /\ f.name \in DOMAIN attrs
                              /\ attrs[f.name] # PyNone
                              /\ attrs[f.name] # PyStr("")
             IN  IF is_required /\ ~has_value
                     THEN merge_required(errs, f.name)
                 ELSE errs
    ELSE errs

\* the "Require conditional fields" block; visible is the evaluator's answer
RequireConditional(c, f, attrs, errs, visible) ==
    IF is_conditional_field(c, f)
        THEN LET is_required == f.required = "true"
                 has_value == /\ f.name \in DOMAIN attrs
                              /\ attrs[f.name] # PyNone
                              /\ attrs[f.name] # PyStr("")
             IN  IF is_required /\ visible /\ ~has_value
                     THEN merge_required(errs, f.name)
                 ELSE errs
    ELSE errs

\* faulty variant, used to show the property below is sensitive to it: the empty list is not checked against allow_blank
MultiCheckbox_NoBlankCheck(f, attrs, errs) ==
    IF f.name \notin DOMAIN attrs THEN errs
    ELSE IF f.is_multi_checkbox /\ attrs[f.name] # PyNone
        THEN IF attrs[f.name].k # "list" THEN merge_field(errs, f.name, ArrayRequired)
             ELSE OptionErrors(errs, f.name, attrs[f.name].l, SeqToSet(f.options), 1)
    ELSE errs

\* the rest of the loop body: the multi-checkbox checks
MultiCheckbox(f, attrs, errs) ==
    IF f.name \notin DOMAIN attrs THEN errs
    ELSE IF f.is_multi_checkbox /\ attrs[f.name] # PyNone
        THEN IF attrs[f.name].k # "list" THEN merge_field(errs, f.name, ArrayRequired)
             ELSE IF f.allow_blank = "false" /\ ~Truthy(attrs[f.name])
                 THEN merge_required(errs, f.name)
             ELSE OptionErrors(errs, f.name, attrs[f.name].l, SeqToSet(f.options), 1)
    ELSE errs

\* one iteration of the loop of validate: the error map after it
ValidateStep(c, f, attrs, errs, visible) ==
    MultiCheckbox(f, attrs, RequireConditional(c, f, attrs, errs, visible))

(***************************************************************************)
(* update.                                                                 *)
(***************************************************************************)
\* the keys of validated_data in the order of its items()
RECURSIVE ItemNames(_, _, _)
ItemNames(flds, validated_data, j) ==
    IF j > Len(flds) THEN <<>>
    ELSE (IF flds[j].field_name \in DOMAIN validated_data
              THEN << flds[j].field_name >> ELSE <<>>)
         \o ItemNames(flds, validated_data, j + 1)

\* faulty variant, used to show the property below is sensitive to it: ignore_fields is not consulted
RECURSIVE update_WritesIgnored(_, _, _, _, _)
update_WritesIgnored(inst, validated_data, items, ignored, j) ==
    IF j > Len(items) THEN inst
    ELSE update_WritesIgnored(Put(inst, items[j], validated_data[items[j]]),
                              validated_data, items, ignored, j + 1)

\* the field store after the loop of update has handled items j..Len(items)
RECURSIVE update(_, _, _, _, _)
update(inst, validated_data, items, ignored, j) ==
    IF j > Len(items) THEN inst
    ELSE update(IF items[j] \in SeqToSet(ignored) THEN inst
                ELSE Put(inst, items[j], validated_data[items[j]]),
                validated_data, items, ignored, j + 1)

(***************************************************************************)
(* Representation (FormRepresentatorV10 / FormRepresentatorV11).  A call   *)
(* that may end in RecursionError returns "True", "False" or               *)
(* "RecursionError", as the visibility evaluators above do.                *)
(***************************************************************************)
DefaultColumns == 12

\* 'representation' in field_def.meta
HasRepresentation(f) ==
    \/ f.representation.keys # {}
    \/ f.repr_behaviour # "absent"
    \/ f.repr_visibility.shape # "none"

\* the display label of the option whose value is opt
OptionDisplay(opt) == "display of " \o opt

\* field.get_value_display(): a choice shows the label of its option
get_value_display(f, value) ==
    IF f.type \in {"RADIO", "SELECT"} /\ value.k = "str" /\ value.s \in SeqToSet(f.options)
        THEN PyStr(OptionDisplay(value.s))
    ELSE value

\* [opt['display'] for value in field.value for opt in options if value == opt['value']]
RECURSIVE OptionDisplays(_, _, _)
OptionDisplays(values, options, j) ==
    IF j > Len(values) THEN <<>>
    ELSE (IF values[j] \in SeqToSet(options) THEN << OptionDisplay(values[j]) >> ELSE <<>>)
         \o OptionDisplays(values, options, j + 1)

\* result.update(attrs): attrs is a dict in its own order, as <<key, value>> pairs
RECURSIVE dict_update(_, _, _)
dict_update(result, attrs, j) ==
    IF j > Len(attrs) THEN result
    ELSE dict_update(Put(result, attrs[j][1], attrs[j][2]), attrs, j + 1)

\* the branch taken for one key of repr_meta['__value_attributes']: __all,
\* __empty with a null value, or a key equal to the value
Applicable(key, value) ==
    \/ key = "__all"
    \/ key = "__empty" /\ value = PyNone
    \/ PyEq(PyStr(key), value)

\* the loop over repr_meta['__value_attributes'], from entry j on
RECURSIVE MergeValueAttributes(_, _, _, _)
MergeValueAttributes(result, entries, value, j) ==
    IF j > Len(entries) THEN result
    ELSE MergeValueAttributes(
             IF Applicable(entries[j].key, value)
                 THEN dict_update(result, entries[j].attrs, 1)
             ELSE result,
             entries, value, j + 1)

\* result['columns']: repr_meta.get('columns') or meta.get('columns', 12)
ColumnsOf(repr_meta, f) ==
    IF "columns" \in repr_meta.keys /\ repr_meta.columns # 0 THEN PyInt(repr_meta.columns)
    ELSE IF f.has_columns THEN PyInt(f.columns)
    ELSE PyInt(DefaultColumns)

\* result['value']
ShownValue(f, value) ==
    IF f.is_multi_checkbox /\ Truthy(value)
        THEN PyList(OptionDisplays(value.l, f.options, 1))
    ELSE get_value_display(f, value)

\* the keys of field_repr_structure in their order, on the result so far
WithLabel(repr_meta, result) ==
    IF "label" \in repr_meta.keys THEN Put(result, "label", PyStr(repr_meta.label))
    ELSE result

WithValueAttributes(repr_meta, value, result) ==
    IF "__value_attributes" \in repr_meta.keys
        THEN MergeValueAttributes(result, repr_meta.value_attributes, value, 1)
    ELSE result

\* build_field_repr_clause(repr_meta, field): columns, label, value,
\* __value_attributes
build_field_repr_clause(repr_meta, f, value) ==
    WithValueAttributes(repr_meta, value,
        Put(WithLabel(repr_meta, Put(EmptyMap, "columns", ColumnsOf(repr_meta, f))),
            "value", ShownValue(f, value)))

\* V1.0 get_dependent_fields: the fields whose visibility triplex names field_name
RECURSIVE DependentFrom(_, _, _)
DependentFrom(all_fields, field_name, j) ==
    IF j > Len(all_fields) THEN <<>>
    ELSE (IF /\ all_fields[j].visibility.shape = "triplex"
             /\ all_fields[j].visibility.cond[1] = field_name
              THEN << all_fields[j] >> ELSE <<>>)
         \o DependentFrom(all_fields, field_name, j + 1)

get_dependent_fields10(all_fields, field_name) == DependentFrom(all_fields, field_name, 1)

\* faulty variant, used to show the property below is sensitive to it: any dependent field with a value is evidence
get_switch_value10_AnyValue(all_fields, switch_name, inst) ==
    \E j \in 1..Len(all_fields) :
        /\ all_fields[j].visibility.shape = "triplex"
        /\ all_fields[j].visibility.cond[1] = switch_name
        /\ Get(inst, all_fields[j].name) # PyNone

\* `condition_met and value != None or not condition_met and value == None`
Evidence(condition_met, value) ==
    \/ condition_met /\ value # PyNone
    \/ ~condition_met /\ value = PyNone

\* the loop of V1.0 get_switch_value over the dependent fields
AnyEvidence(dependent_fields, inst) ==
    \E j \in 1..Len(dependent_fields) :
        Evidence(visibility_condition_met10(get_meta_visibility10(dependent_fields[j])),
                 Get(inst, dependent_fields[j].name))

\* V1.0 get_switch_value(all_fields, switch_name, instance)
get_switch_value10(all_fields, switch_name, inst) ==
    AnyEvidence(get_dependent_fields10(all_fields, switch_name), inst)

\* V1.1 get_switch_value(all_fields, switch_name, instance)
get_switch_value11(all_fields, switch_name, inst) ==
    \E j \in 1..Len(all_fields) :
        /\ all_fields[j].has_parent_field
        /\ all_fields[j].parent_field = switch_name
        /\ Truthy(Get(inst, all_fields[j].name))

get_switch_value(c, all_fields, switch_name, inst) ==
    IF IsV11(c) THEN get_switch_value11(all_fields, switch_name, inst)
    ELSE get_switch_value10(all_fields, switch_name, inst)

\* faulty variant, used to show the property below is sensitive to it: `value` is the displayed value, as in the representation clause
FieldDict_DisplayValue(c, f, inst) ==
    LET value == Get(inst, f.name)
    IN  [name |-> f.name,
         type |-> f.type,
         is_switch |-> f.is_switch,
         has_value |-> f.type # "FILE",
         value |-> IF f.type = "FILE" THEN PyNone
                   ELSE IF f.is_switch = "true"
                       THEN PyBool(get_switch_value(c, template.fields, f.name, inst))
                   ELSE IF f.is_multi_checkbox /\ Truthy(value)
                       THEN PyList(OptionDisplays(value.l, f.options, 1))
                   ELSE get_value_display(f, value),
         has_representation |-> HasRepresentation(f),
         representation |-> IF HasRepresentation(f)
                                THEN build_field_repr_clause(f.representation, f, value)
                            ELSE EmptyMap]

\* one entry of V1.0 represent_fields: the keys of field_structure that the
\* field has (`value` is no key of a file field's meta)
FieldDict(c, f, inst) ==
    LET value == Get(inst, f.name)
    IN  [name |-> f.name,
         type |-> f.type,
         is_switch |-> f.is_switch,
         has_value |-> f.type # "FILE",
         value |-> IF f.type = "FILE" THEN PyNone
                   ELSE IF f.is_switch = "true"
                       THEN PyBool(get_switch_value(c, template.fields, f.name, inst))
                   ELSE value,
         has_representation |-> HasRepresentation(f),
         representation |-> IF HasRepresentation(f)
                                THEN build_field_repr_clause(f.representation, f, value)
                            ELSE EmptyMap]

\* V1.0 represent_fields(section_id, instance), from field j of the template on
RECURSIVE represent_fields10(_, _, _, _)
represent_fields10(c, section_id, inst, j) ==
    IF j > Len(template.fields) THEN <<>>
    ELSE (IF template.fields[j].section_id # section_id THEN <<>>
          ELSE << FieldDict(c, template.fields[j], inst) >>)
         \o represent_fields10(c, section_id, inst, j + 1)

get_repr_visibility_behaviour(obj) ==
    LET given == CASE obj.kind = "field" -> FieldByName(template, obj.name).repr_behaviour
                   [] obj.kind = "section" -> SectionById(template, obj.name).repr_behaviour
                   [] OTHER -> "absent"
    IN  IF given = "absent" THEN "persist" ELSE given

get_repr_visibility_clause(obj) ==
    CASE obj.kind = "field" -> FieldByName(template, obj.name).repr_visibility
      [] obj.kind = "section" -> SectionById(template, obj.name).repr_visibility
      [] OTHER -> NoClause

\* the answer of two checks made one after the other: the second is made
\* only if the first answers "True"
AndThen(first, second) == IF first # "True" THEN first ELSE second

RECURSIVE visible_in_representation(_, _)

\* the `persist` branch for a FieldDefinition: the section, then the parent
PersistVisibleField(f, depth) ==
    AndThen(IF HasSection(template, f.section_id)
                THEN visible_in_representation(SectionObj(f.section_id), depth + 1)
            ELSE "True",
            IF f.has_parent_field
                THEN visible_in_representation(LookupField(f.parent_field), depth + 1)
            ELSE "True")

\* the `persist` branch of visible_in_representation
PersistVisible(obj, depth) ==
    IF obj.kind # "field" THEN "True"
    ELSE PersistVisibleField(FieldByName(template, obj.name), depth)

\* the branches of visible_in_representation for one behaviour
VisibleBy(behaviour, obj, depth) ==
    AndThen(IF behaviour = "persist" THEN PersistVisible(obj, depth) ELSE "True",
            IF behaviour \in {"follow_meta", "custom"}
                THEN visibility_condition_met11(
                         obj,
                         IF behaviour = "custom" THEN get_repr_visibility_clause(obj)
                         ELSE get_meta_visibility11(obj),
                         depth + 1)
            ELSE "True")

\* faulty variant, used to show the property below is sensitive to it: `persist` also asks the field's own clause
visible_in_representation_OwnClause(obj, depth) ==
    IF depth > RecursionLimit THEN "RecursionError"
    ELSE visibility_condition_met11(
             obj,
             IF get_repr_visibility_behaviour(obj) = "custom"
                 THEN get_repr_visibility_clause(obj)
             ELSE get_meta_visibility11(obj),
             depth + 1)

\* depth: the number of calls on the stack
visible_in_representation(obj, depth) ==
    IF depth > RecursionLimit THEN "RecursionError"
    ELSE VisibleBy(get_repr_visibility_behaviour(obj), obj, depth)

\* the entries of result whose verdict is "True", from entry j on
RECURSIVE KeepVisible(_, _, _)
KeepVisible(result, verdicts, j) ==
    IF j > Len(result) THEN <<>>
    ELSE (IF verdicts[j] = "True" THEN << result[j] >> ELSE <<>>)
         \o KeepVisible(result, verdicts, j + 1)

\* the second half of V1.1 represent_fields: [fault, fields]
FilterBy(result, verdicts) ==
    IF \E j \in 1..Len(result) : verdicts[j] = "RecursionError"
        THEN [fault |-> "RecursionError", fields |-> <<>>]
    ELSE [fault |-> "", fields |-> KeepVisible(result, verdicts, 1)]

FilterVisible(result) ==
    FilterBy(result, [j \in 1..Len(result) |->
                        visible_in_representation(LookupField(result[j].name), 1)])

\* V1.1 represent_fields: [fault, fields]
represent_fields11(c, section_id, inst) ==
    FilterVisible(represent_fields10(c, section_id, inst, 1))

represent_fields(c, section_id, inst) ==
    IF IsV11(c) THEN represent_fields11(c, section_id, inst)
    ELSE [fault |-> "", fields |-> represent_fields10(c, section_id, inst, 1)]

\* the entry of a section: `id` records the section the entry was built from
SectionEntry(id, fs) ==
    [fault |-> fs.fault, section |-> [id |-> id, fields |-> fs.fields]]

represent_section(c, section_meta, inst) ==
    SectionEntry(section_meta.id, represent_fields(c, section_meta.id, inst))

\* one turn of the loop of to_representation: the section is skipped, or its
\* entry is put before the entries of the sections after it
EmitSection(shown, here, rest) ==
    IF shown = "RecursionError" THEN [fault |-> shown, sections |-> <<>>]
    ELSE IF shown = "False" THEN rest
    ELSE IF here.fault # "" THEN [fault |-> here.fault, sections |-> <<>>]
    ELSE IF rest.fault # "" THEN rest
    ELSE [fault |-> "", sections |-> << here.section >> \o rest.sections]

\* to_representation(instance): [fault, sections], from section j on
RECURSIVE to_representation(_, _, _)
to_representation(c, inst, j) ==
    IF j > Len(template.sections) THEN [fault |-> "", sections |-> <<>>]
    ELSE EmitSection(
             IF IsV11(c)
                 THEN visible_in_representation(SectionObj(template.sections[j].id), 1)
             ELSE "True",
             represent_section(c, template.sections[j], inst),
             to_representation(c, inst, j + 1))

\* the entries of a rendered tree, section after section
RECURSIVE Entries(_, _)
Entries(sections, j) ==
    IF j > Len(sections) THEN <<>>
    ELSE sections[j].fields \o Entries(sections, j + 1)

\* the emitted `value` of every non-switch field of a rendered tree, by name
RenderedValues(sections) ==
    LET es == Entries(sections, 1)
        keep == {j \in 1..Len(es) : es[j].has_value /\ es[j].is_switch # "true"}
    IN  [name \in {es[j].name : j \in keep} |->
            es[CHOOSE j \in keep : es[j].name = name].value]

(***************************************************************************)
(* The templates, Forms and contexts the serializer is run on.             *)
(***************************************************************************)
MaxFiles == 2

NoReferral ==
    [bound |-> FALSE, attrs |-> EmptyMap, has_referrer |-> FALSE, referrer |-> EmptyMap]
Referral(submitter) ==
    [bound |-> TRUE, attrs |-> [external_submitter_type |-> PyStr(submitter)],
     has_referrer |-> FALSE, referrer |-> EmptyMap]
ReferralWithReferrer(submitter, role) ==
    [Referral(submitter) EXCEPT !.has_referrer = TRUE, !.referrer = [role |-> PyStr(role)]]

NoParent == [present |-> FALSE, has_data |-> FALSE, initial_data |-> EmptyMap]
Parent(data) == [present |-> TRUE, has_data |-> TRUE, initial_data |-> data]

\* a visibility clause on one field of the template, in the syntax of the version
VisClause(v, name, sign, literal) ==
    IF v = V11 THEN Groups({"template"}, <<>>, <<>>, << <<name, sign, literal>> >>)
    ELSE Triplex(name, sign, literal)

\* a checkbox and a text field shown depending on it
CondTemplate(v, req, sign, literal, an, sreq, san) ==
    [tmsv |-> v, title |-> "cond", sections |-> << Section("s1") >>,
     fields |-> <<
        [Field("smoker", "CHECKBOX", "s1") EXCEPT !.required = sreq, !.allow_null = san],
        [Field("cigs", "INPUT", "s1") EXCEPT
            !.required = req, !.allow_null = an,
            !.visibility = VisClause(v, "smoker", sign, literal)] >>]

CondTemplates ==
    {CondTemplate(v, req, sign, PyTrue, "absent", "true", "absent") :
        v \in {V10, V11}, req \in {"absent", "true", "false"}, sign \in {"==", "!="}}
    \cup
    {CondTemplate(v, "true", "==", PyStr("false"), an, sreq, san) :
        v \in {V10, V11}, an \in {"absent", "false"}, sreq \in {"absent", "true"},
        san \in {"absent", "true"}}

\* a multi-checkbox and a required text field
MultiTemplate(v, ab, cond) ==
    [tmsv |-> v, title |-> "multi", sections |-> << Section("s1") >>,
     fields |-> <<
        [Field("brands", "CHECKBOX", "s1") EXCEPT
            !.is_multi_checkbox = TRUE, !.options = << "x", "y" >>,
            !.allow_blank = ab,
            !.required = IF cond THEN "true" ELSE "absent",
            !.visibility = IF cond THEN VisClause(v, "name", "!=", PyQStr("bob"))
                           ELSE NoClause],
        [Field("name", "INPUT", "s1") EXCEPT !.required = "true"] >>]

MultiTemplates ==
    {MultiTemplate(v, ab, cond) :
        v \in {V10, V11}, ab \in {"absent", "true", "false"}, cond \in BOOLEAN}

\* V1.1: nested fields and a section shown for patients only
PatientsOnly ==
    Groups({"referral"}, << <<"external_submitter_type", "==", PyQStr("PATIENT")>> >>,
           <<>>, <<>>)
ByGP ==
    Groups({"referrer", "template"}, <<>>, << <<"role", "==", PyQStr("GP")>> >>,
           << <<"a", "==", PyTrue>> >>)

ChainTemplate(par_a, par_b, par_c, sb) ==
    [tmsv |-> V11, title |-> "chain",
     sections |-> << Section("s1"), [Section("s2") EXCEPT !.visibility = PatientsOnly] >>,
     fields |-> <<
        [Field("a", "CHECKBOX", "s1") EXCEPT
            !.has_parent_field = par_a # "", !.parent_field = par_a],
        [Field("b", "INPUT", sb) EXCEPT
            !.required = "true", !.has_parent_field = par_b # "", !.parent_field = par_b],
        [Field("c", "INPUT", "s1") EXCEPT
            !.required = "true", !.has_parent_field = par_c # "", !.parent_field = par_c,
            !.visibility = ByGP] >>]

ChainTemplates ==
    {ChainTemplate(p[1], p[2], p[3], sb) :
        p \in { <<"", "a", "b">>,        \* c under b under a
                <<"", "", "">>,          \* no nesting
                <<"", "b", "">>,         \* b names itself
                <<"", "c", "b">>,        \* b and c name each other
                <<"", "ghost", "b">> },  \* b names a field that does not exist
        sb \in {"s1", "s2"}}

\* a file field, a switch and a text field
FilesTemplate(v, hm) ==
    [tmsv |-> v, title |-> "files", sections |-> << Section("s1") >>,
     fields |-> <<
        [Field("scan", "FILE", "s1") EXCEPT !.has_max_files = hm, !.max_files = MaxFiles],
        [Field("more", "CHECKBOX", "s1") EXCEPT !.is_switch = "true"],
        [Field("name", "INPUT", "s1") EXCEPT
            !.visibility = VisClause(v, "more", "==", PyTrue)] >>]

FilesTemplates == {FilesTemplate(v, hm) : v \in {V10, V11}, hm \in BOOLEAN}

\* a template whose version tag no strategy exists for
UnknownTags == {"2.0", "1", ""}
BadTagTemplates ==
    {CondTemplate(v, "true", "==", PyTrue, "absent", "true", "absent") : v \in UnknownTags}

\* two switches (one without dependent fields) and the fields shown under the
\* first: by their visibility triplex in V1.0, by parent_field in V1.1
SwitchTemplate(v, sign) ==
    [tmsv |-> v, title |-> "switch", sections |-> << Section("s1") >>,
     fields |-> <<
        [Field("more", "CHECKBOX", "s1") EXCEPT !.is_switch = "true"],
        [Field("extra", "INPUT", "s1") EXCEPT
            !.visibility = IF v = V10 THEN Triplex("more", sign, PyTrue) ELSE NoClause,
            !.has_parent_field = v = V11,
            !.parent_field = IF v = V11 THEN "more" ELSE ""],
        [Field("flag", "CHECKBOX", "s1") EXCEPT
            !.visibility = IF v = V10 THEN Triplex("more", "==", PyTrue) ELSE NoClause,
            !.has_parent_field = v = V11,
            !.parent_field = IF v = V11 THEN "more" ELSE ""],
        [Field("lone", "CHECKBOX", "s1") EXCEPT !.is_switch = "true"] >>]

SwitchTemplates == {SwitchTemplate(v, sign) : v \in {V10, V11}, sign \in {"==", "!="}}

\* V1.1: display visibility behaviours on a section and on a nested field
ForGP == Groups({"referrer"}, <<>>, << <<"role", "==", PyQStr("GP")>> >>, <<>>)
NotByGP ==
    Groups({"referral"}, << <<"external_submitter_type", "!=", PyQStr("GP")>> >>,
           <<>>, <<>>)
IfP(sign) == Groups({"template"}, <<>>, <<>>, << <<"p", sign, PyTrue>> >>)

DisplayTemplate(bs, bf) ==
    [tmsv |-> V11, title |-> "display",
     sections |-> << Section("s1"),
                     [Section("s2") EXCEPT !.visibility = PatientsOnly,
                                           !.repr_behaviour = bs,
                                           !.repr_visibility = ForGP] >>,
     fields |-> <<
        Field("p", "CHECKBOX", "s1"),
        [Field("q", "INPUT", "s1") EXCEPT
            !.required = "true", !.has_parent_field = TRUE, !.parent_field = "r",
            !.visibility = IfP("=="),
            !.repr_behaviour = bf, !.repr_visibility = IfP("!=")],
        [Field("r", "INPUT", "s2") EXCEPT !.visibility = NotByGP] >>]

Behaviours == {"absent", "follow_meta", "custom"}
DisplayTemplates == {DisplayTemplate(bs, bf) : bs \in Behaviours, bf \in Behaviours}

\* representation meta with value-conditioned attributes
StatusAttributes ==
    << [key |-> "__all",
        attrs |-> << <<"display_value_as", PyStr("yes_no")>>, <<"label", PyStr("Any")>> >>],
       [key |-> "__empty",
        attrs |-> << <<"display_value_as", PyStr("dash")>> >>],
       [key |-> "v",
        attrs |-> << <<"colour", PyStr("green")>> >>] >>

AttrTemplate(v, keys) ==
    [tmsv |-> v, title |-> "attr", sections |-> << Section("s1") >>,
     fields |-> <<
        [Field("status", "INPUT", "s1") EXCEPT
            !.representation = [keys |-> keys, columns |-> 0, label |-> "Status",
                                value_attributes |-> StatusAttributes]],
        [Field("kind", "RADIO", "s1") EXCEPT
            !.options = << "x", "y" >>,
            !.has_columns = TRUE, !.columns = 6,
            !.representation = [NoRepresentation EXCEPT !.keys = {"label"},
                                                        !.label = "Kind"]] >>]

AttrTemplates ==
    {AttrTemplate(v, keys) :
        v \in {V10, V11},
        keys \in {{"label", "__value_attributes"}, {"columns", "__value_attributes"}}}

Templates ==
    CondTemplates \cup MultiTemplates \cup ChainTemplates \cup FilesTemplates
    \cup BadTagTemplates \cup SwitchTemplates \cup DisplayTemplates \cup AttrTemplates

\* a Form just created from the template: every field without a value
NewForm(t) == [name \in FieldNames(t) |-> PyNone]

\* the referral and parent serializer a template is run with
Contexts(t) ==
    IF t.title = "chain"
        THEN {[has_instance |-> TRUE, referral |-> ReferralWithReferrer("PATIENT", "GP"),
               parent |-> NoParent],
              [has_instance |-> TRUE, referral |-> ReferralWithReferrer("GP", "GP"),
               parent |-> NoParent],
              [has_instance |-> FALSE, referral |-> Referral("GP"), parent |-> NoParent],
              [has_instance |-> FALSE, referral |-> NoReferral, parent |-> NoParent],
              [has_instance |-> FALSE, referral |-> NoReferral, parent |-> Parent(EmptyMap)],
              [has_instance |-> FALSE, referral |-> NoReferral,
               parent |-> Parent([external_submitter_type |-> PyStr("PATIENT"),
                                  referrer__role |-> PyStr("GP")])]}
    ELSE IF t.title = "display"
        THEN {[has_instance |-> TRUE, referral |-> ReferralWithReferrer("PATIENT", "GP"),
               parent |-> NoParent],
              [has_instance |-> TRUE, referral |-> ReferralWithReferrer("PATIENT", "NURSE"),
               parent |-> NoParent],
              [has_instance |-> TRUE, referral |-> ReferralWithReferrer("GP", "GP"),
               parent |-> NoParent],
              [has_instance |-> TRUE, referral |-> NoReferral, parent |-> NoParent],
              [has_instance |-> FALSE, referral |-> NoReferral, parent |-> NoParent],
              [has_instance |-> FALSE, referral |-> NoReferral, parent |-> Parent(EmptyMap)],
              [has_instance |-> FALSE, referral |-> NoReferral,
               parent |-> Parent([external_submitter_type |-> PyStr("GP")])]}
    ELSE {[has_instance |-> b, referral |-> NoReferral, parent |-> NoParent] :
             b \in BOOLEAN}

\* the values submitted for one serializer field
InputValues(t, fld) ==
    CASE fld.class = "DynamicJSONField" ->
            {PyNone, PyStr(""), PyStr("x"), PyList(<<>>), PyList(<< "x" >>),
             PyList(<< "z" >>), PyList(<< "x", "z" >>)}
      [] fld.class = "DynamicBooleanField" ->
            IF t.title \in {"chain", "display"} THEN {PyTrue, PyFalse}
            ELSE {PyNone, PyTrue, PyFalse}
      [] fld.class = "DynamicCharField" ->
            IF t.title = "cond" THEN {PyNone, PyStr(""), PyStr("10")}
            ELSE IF t.title = "multi" THEN {PyStr("bob"), PyStr("al")}
            ELSE IF t.title \in {"switch", "attr"} THEN {PyNone, PyStr(""), PyStr("v")}
            ELSE {PyStr("v")}
      [] fld.class = "DynamicChoiceField" -> {PyStr("x"), PyStr("z")}
      [] fld.class = "FileField" -> {PyFile("scan.pdf")}
      [] OTHER -> {PyNone}

\* every data a client can submit for the fields built
Submissions(t, flds) ==
    LET names == {flds[j].field_name : j \in 1..Len(flds)}
        byName(n) == flds[CHOOSE j \in 1..Len(flds) : flds[j].field_name = n]
    IN  UNION {
            {d \in [present -> UNION {InputValues(t, byName(n)) : n \in present}] :
                \A n \in present : d[n] \in InputValues(t, byName(n))}
            : present \in SUBSET names}

\* the names of the template's switch fields
SwitchNames(t) ==
    {t.fields[j].name : j \in {h \in 1..Len(t.fields) : t.fields[h].is_switch = "true"}}

\* a client may also send a value under the name of a switch
SubmissionsNamingSwitch(t, flds) ==
    IF t.title = "switch"
        THEN {Put(d, n, PyTrue) : d \in Submissions(t, flds), n \in SwitchNames(t)}
    ELSE {}

(***************************************************************************)
(* Acting-user tracking: ActingUserTrackingMiddleware, GetActingUserMixin  *)
(* and TrackAddedUpdatedMixin (src/Python/custom-middleware.py,            *)
(* src/Python/model-mixins.py).                                            *)
(***************************************************************************)
\* the threads that handle requests
Threads == {"t1", "t2"}
\* the users (auth.User rows) behind the requests
Users == {"alice", "bob"}
\* a null foreign key
NoUser == "None"
\* the instances of the model the program holds
InstanceIds == {"i1", "i2"}
\* timezone.now() is read at most up to this instant
MaxNow == 4
\* a null DateTimeField
NoTime == 0

Request(u) == [user |-> u]
NoRequest == [user |-> NoUser]

\* the attributes of a threading.local() as one thread sees them
NoAttributes == [has_request |-> FALSE, request |-> NoRequest]

\* GetActingUserMixin.__subclasses__(): the classes that inherit the mixin
\* directly; each reads the `thread` attribute of the mixin itself
Subclasses == {"TrackAddedUpdatedMixin"}

\* faulty variant, used to show the property below is sensitive to it: `thread` is an object all threads share
SetRequest_Shared(local, t, request) ==
    [x \in DOMAIN local |-> [has_request |-> TRUE, request |-> request]]

\* `model.thread.request = request` run by thread t, `thread` being a
\* threading.local()
SetRequest(local, t, request) ==
    [local EXCEPT ![t] = [has_request |-> TRUE, request |-> request]]

\* `if hasattr(model.thread, 'request'): del model.thread.request` run by t
DelRequest(local, t) ==
    IF local[t].has_request THEN [local EXCEPT ![t] = NoAttributes] ELSE local

\* the loop of process_request over the subclasses, run by thread t
RECURSIVE process_request(_, _, _, _)
process_request(local, t, request, models) ==
    IF models = {} THEN local
    ELSE process_request(SetRequest(local, t, request), t, request,
                         models \ {CHOOSE m \in models : TRUE})

\* the loop of process_response over the subclasses, run by thread t
RECURSIVE process_response(_, _, _)
process_response(local, t, models) ==
    IF models = {} THEN local
    ELSE process_response(DelRequest(local, t), t,
                          models \ {CHOOSE m \in models : TRUE})

\* get_acting_user() on the attributes the calling thread sees
get_acting_user(attributes) ==
    IF attributes.has_request
        THEN [raised |-> FALSE, user |-> attributes.request.user]
    ELSE [raised |-> TRUE, user |-> NoUser]

\* an instance of a model that uses TrackAddedUpdatedMixin; adding is
\* _state.adding, pk = 0 is an unset primary key
NoInstance ==
    [exists |-> FALSE, adding |-> FALSE, pk |-> 0, added_by |-> NoUser,
     added_at |-> NoTime, updated_by |-> NoUser, updated_at |-> NoTime]

\* Model(added_by=given), or Model() when given is NoUser
NewInstance(given) ==
    [exists |-> TRUE, adding |-> TRUE, pk |-> 0, added_by |-> given,
     added_at |-> NoTime, updated_by |-> NoUser, updated_at |-> NoTime]

Row(obj) ==
    [added_by |-> obj.added_by, added_at |-> obj.added_at,
     updated_by |-> obj.updated_by, updated_at |-> obj.updated_at]

\* Model.objects.get(pk=pk)
FromDb(pk, row) ==
    [exists |-> TRUE, adding |-> FALSE, pk |-> pk, added_by |-> row.added_by,
     added_at |-> row.added_at, updated_by |-> row.updated_by,
     updated_at |-> row.updated_at]

\* the assignment of the acting user to a field of the instance, or the
\* exception get_acting_user raised
SetActingUser(obj, field, acting) ==
    IF acting.raised THEN [raised |-> TRUE, obj |-> obj]
    ELSE [raised |-> FALSE, obj |-> [obj EXCEPT ![field] = acting.user]]

\* faulty variant, used to show the property below is sensitive to it: the creator is always overwritten
TrackedSave_OverwritesCreator(obj, at, acting) ==
    IF obj.adding
        THEN SetActingUser([obj EXCEPT !.added_at = at], "added_by", acting)
    ELSE SetActingUser([obj EXCEPT !.updated_at = at], "updated_by", acting)

\* TrackAddedUpdatedMixin.save up to super().save(): [raised, obj]
TrackedSave(obj, at, acting) ==
    IF obj.adding
        THEN IF obj.added_by = NoUser
                 THEN SetActingUser([obj EXCEPT !.added_at = at], "added_by", acting)
             ELSE [raised |-> FALSE, obj |-> [obj EXCEPT !.added_at = at]]
    ELSE SetActingUser([obj EXCEPT !.updated_at = at], "updated_by", acting)

\* the primary key the table gives a new row
NextPk(rows) == Cardinality(DOMAIN rows) + 1

\* models.Model.save: the instance after the write
Saved(obj, rows) ==
    [obj EXCEPT !.adding = FALSE, !.pk = IF obj.pk = 0 THEN NextPk(rows) ELSE obj.pk]

\* models.Model.save: the table after the write
Written(obj, rows) ==
    [pk \in DOMAIN rows \cup {obj.pk} |-> IF pk = obj.pk THEN Row(obj) ELSE rows[pk]]

Call(op, t, i, result) == [op |-> op, thread |-> t, inst |-> i, result |-> result]

InitTracking ==
    /\ thread = [t \in Threads |-> NoAttributes]
    /\ handling = [t \in Threads |-> NoRequest]
    /\ instances = [i \in InstanceIds |-> NoInstance]
    /\ table = << >>
    /\ now = 1
    /\ call = Call("", "", "", "")

\* a request of some user reaches thread t: process_request
ProcessRequest ==
    /\ \E t \in Threads, u \in Users :
          /\ handling[t] = NoRequest
          /\ handling' = [handling EXCEPT ![t] = Request(u)]
          /\ thread' = process_request(thread, t, Request(u), Subclasses)
          /\ call' = Call("process_request", t, "", "")
    /\ UNCHANGED << instances, table, now >>
    /\ UNCHANGED << form_vars, settings_vars >>

\* the response of the request thread t handles: process_response
ProcessResponse ==
    /\ \E t \in Threads :
          /\ handling[t] # NoRequest
          /\ handling' = [handling EXCEPT ![t] = NoRequest]
          /\ thread' = process_response(thread, t, Subclasses)
          /\ call' = Call("process_response", t, "", "")
    /\ UNCHANGED << instances, table, now >>
    /\ UNCHANGED << form_vars, settings_vars >>

\* the outcome of get_acting_user as the caller sees it
Outcome(acting) == IF acting.raised THEN "Exception" ELSE acting.user

\* code running on thread t, inside a request or not, calls get_acting_user
GetActingUser ==
    /\ \E t \in Threads :
          call' = Call("get_acting_user", t, "", Outcome(get_acting_user(thread[t])))
    /\ UNCHANGED << thread, handling, instances, table, now >>
    /\ UNCHANGED << form_vars, settings_vars >>

\* code running on thread t builds an instance, with or without a creator
Construct ==
    /\ \E t \in Threads, i \in InstanceIds, given \in Users \cup {NoUser} :
          /\ ~instances[i].exists
          /\ instances' = [instances EXCEPT ![i] = NewInstance(given)]
          /\ call' = Call("construct", t, i, "")
    /\ UNCHANGED << thread, handling, table, now >>
    /\ UNCHANGED << form_vars, settings_vars >>

\* code running on thread t reads a row into an instance
Load ==
    /\ \E t \in Threads, i \in InstanceIds, pk \in DOMAIN table :
          /\ ~instances[i].exists
          /\ instances' = [instances EXCEPT ![i] = FromDb(pk, table[pk])]
          /\ call' = Call("get", t, i, "")
    /\ UNCHANGED << thread, handling, table, now >>
    /\ UNCHANGED << form_vars, settings_vars >>

\* the end of save() on instance i run by thread t: the exception leaves the
\* table alone, otherwise super().save() writes the row
SaveEnds(t, i, done) ==
    IF done.raised
        THEN /\ instances' = [instances EXCEPT ![i] = done.obj]
             /\ call' = Call("save", t, i, "Exception")
             /\ UNCHANGED table
    ELSE /\ instances' = [instances EXCEPT ![i] = Saved(done.obj, table)]
         /\ table' = Written(Saved(done.obj, table), table)
         /\ call' = Call("save", t, i, "saved")

\* code running on thread t, inside a request or not, saves an instance
Save ==
    /\ now < MaxNow
    /\ \E t \in Threads, i \in InstanceIds :
          /\ instances[i].exists
          /\ SaveEnds(t, i, TrackedSave(instances[i], now, get_acting_user(thread[t])))
    /\ now' = now + 1
    /\ UNCHANGED << thread, handling >>
    /\ UNCHANGED << form_vars, settings_vars >>

NextTracking ==
    \/ ProcessRequest
    \/ ProcessResponse
    \/ GetActingUser
    \/ Construct
    \/ Load
    \/ Save

(***************************************************************************)
(* The Settings model (src/Python/django-models.py).                       *)
(***************************************************************************)
\* the Settings objects the program holds
SettingsIds == {"o1", "o2"}
\* the primary keys an object is built with; 0 is an unset primary key
SettingsPks == {0, 1, 2}
\* the values of staff_emails; "" is the default of the field
StaffEmails == {"", "staff@example.org"}

NoSettings == [exists |-> FALSE, adding |-> FALSE, pk |-> 0, staff_emails |-> ""]

\* Settings(pk=pk, staff_emails=emails)
NewSettings(pk, emails) ==
    [exists |-> TRUE, adding |-> TRUE, pk |-> pk, staff_emails |-> emails]

\* the object a query builds from a row
SettingsFromDb(pk, row) ==
    [exists |-> TRUE, adding |-> FALSE, pk |-> pk, staff_emails |-> row.staff_emails]

SettingsRow(obj) == [staff_emails |-> obj.staff_emails]

\* models.Model.save(force_insert): [raised, obj, rows]; an unset primary key
\* gets the next one, an insert of a primary key the table holds is refused
ModelSaveWithPk(obj, pk, rows, force_insert) ==
    IF force_insert /\ pk \in DOMAIN rows
        THEN [raised |-> TRUE, obj |-> obj, rows |-> rows]
    ELSE [raised |-> FALSE,
          obj |-> [obj EXCEPT !.adding = FALSE, !.pk = pk],
          rows |-> [k \in DOMAIN rows \cup {pk} |->
                       IF k = pk THEN SettingsRow(obj) ELSE rows[k]]]

ModelSave(obj, rows, force_insert) ==
    ModelSaveWithPk(obj, IF obj.pk = 0 THEN Cardinality(DOMAIN rows) + 1 ELSE obj.pk,
                    rows, force_insert)

\* faulty variant, used to show the property below is sensitive to it: save keeps the primary key the object has
SettingsSave_KeepsPk(obj, rows, force_insert) == ModelSave(obj, rows, force_insert)

\* Settings.save(*args, **kwargs)
SettingsSave(obj, rows, force_insert) ==
    ModelSave([obj EXCEPT !.pk = 1], rows, force_insert)

\* Settings.delete(*args, **kwargs): pass
SettingsDelete(obj, rows) == rows

\* cls.objects.get_or_create(pk=1): the row if there is one, else
\* cls.objects.create(pk=1), which saves a new object with force_insert
get_or_create(rows) ==
    IF 1 \in DOMAIN rows
        THEN [raised |-> FALSE, obj |-> SettingsFromDb(1, rows[1]), rows |-> rows]
    ELSE SettingsSave(NewSettings(1, ""), rows, TRUE)

\* Settings.load()
SettingsLoad(rows) == get_or_create(rows)

SettingsCall(op, o, result) == [op |-> op, obj |-> o, result |-> result]

InitSettings ==
    /\ settings = [o \in SettingsIds |-> NoSettings]
    /\ settings_table = << >>
    /\ settings_call = SettingsCall("", "", "")

\* the program builds a Settings object
ConstructSettings ==
    /\ \E o \in SettingsIds, pk \in SettingsPks, emails \in StaffEmails :
          /\ settings' = [settings EXCEPT ![o] = NewSettings(pk, emails)]
          /\ settings_call' = SettingsCall("construct", o, "")
    /\ UNCHANGED settings_table
    /\ UNCHANGED << form_vars, tracking_vars >>

\* the end of a call that returns [raised, obj, rows] for object o
SettingsCallEnds(op, o, done) ==
    IF done.raised
        THEN /\ settings_call' = SettingsCall(op, o, "IntegrityError")
             /\ UNCHANGED << settings, settings_table >>
    ELSE /\ settings' = [settings EXCEPT ![o] = done.obj]
         /\ settings_table' = done.rows
         /\ settings_call' = SettingsCall(op, o, "returned")

\* Settings.load(), the object it returns kept as o
LoadSettings ==
    /\ \E o \in SettingsIds : SettingsCallEnds("load", o, SettingsLoad(settings_table))
    /\ UNCHANGED << form_vars, tracking_vars >>

\* save() or save(force_insert=True) on an object
SaveSettings ==
    /\ \E o \in SettingsIds, force_insert \in BOOLEAN :
          /\ settings[o].exists
          /\ SettingsCallEnds("save", o,
                              SettingsSave(settings[o], settings_table, force_insert))
    /\ UNCHANGED << form_vars, tracking_vars >>

\* delete() on an object
DeleteSettings ==
    /\ \E o \in SettingsIds :
          /\ settings[o].exists
          /\ settings_table' = SettingsDelete(settings[o], settings_table)
          /\ settings_call' = SettingsCall("delete", o, "returned")
    /\ UNCHANGED settings
    /\ UNCHANGED << form_vars, tracking_vars >>

NextSettings ==
    \/ ConstructSettings
    \/ LoadSettings
    \/ SaveSettings
    \/ DeleteSettings

(***************************************************************************)
(* The serializer's life cycle.                                            *)
(***************************************************************************)
InitForms ==
    /\ template \in Templates
    /\ \E ctx \in Contexts(template) :
          /\ has_instance = ctx.has_instance
          /\ referral = ctx.referral
          /\ parent = ctx.parent
    /\ store = IF has_instance THEN NewForm(template) ELSE EmptyMap
    /\ cls = ""
    /\ accept_files = FALSE
    /\ has_data = FALSE
    /\ initial_data = EmptyMap
    /\ fields = <<>>
    /\ ignore_fields = <<>>
    /\ idx = 0
    /\ ret = EmptyMap
    /\ errors = NoErrors
    /\ pc = "start"
    /\ fault = ""
    /\ representator = ""
    /\ out = <<>>
    /\ resubmitted = FALSE

\* the serializer on its form; nothing runs on the tracking side or on Settings
Init ==
    /\ InitForms
    /\ InitTracking
    /\ InitSettings

HasFileField(t) == \E j \in 1..Len(t.fields) : t.fields[j].type = "FILE"

\* get_form_serializer_class_for(template) and, with the class it returns,
\* __init__(instance, data=..., accept_files=...)
GetFormSerializer ==
    /\ pc = "start"
    /\ LET c == get_form_serializer_class_for(template)
       IN  IF c = TemplateMetaSyntaxVersionError
               THEN /\ pc' = "fault"
                    /\ fault' = TemplateMetaSyntaxVersionError
                    /\ UNCHANGED << cls, accept_files, has_data, initial_data >>
           ELSE /\ cls' = c
                /\ accept_files' \in (IF HasFileField(template) THEN BOOLEAN ELSE {FALSE})
                /\ has_data' = TRUE
                /\ LET flds == BuildFields(c, template, accept_files', 1)
                   IN  initial_data' \in Submissions(template, flds)
                                           \cup SubmissionsNamingSwitch(template, flds)
                /\ pc' = "init"
                /\ UNCHANGED fault
    /\ UNCHANGED << template, has_instance, store, referral, parent, fields,
                    ignore_fields, idx, ret, errors >>
    /\ UNCHANGED << render_vars, tracking_vars, settings_vars >>

\* get_fields(), run when to_internal_value first reads the serializer's fields
GetFields ==
    /\ pc = "init"
    /\ fields' = BuildFields(cls, template, accept_files, 1)
    /\ ignore_fields' = ignore_fields \o IgnoredNames(template, accept_files, 1)
    /\ idx' = 1
    /\ ret' = EmptyMap
    /\ errors' = NoErrors
    /\ pc' = "to_internal_value"
    /\ UNCHANGED << template, has_instance, store, referral, parent, cls,
                    accept_files, has_data, initial_data, fault >>
    /\ UNCHANGED << render_vars, tracking_vars, settings_vars >>

\* one iteration of the loop of to_internal_value
ToInternalValueField ==
    /\ pc = "to_internal_value"
    /\ idx <= Len(fields)
    /\ LET after == ToInternalValueStep(fields[idx], initial_data, ret, errors)
       IN  /\ ret' = after.ret
           /\ errors' = after.errors
    /\ idx' = idx + 1
    /\ UNCHANGED << template, has_instance, store, referral, parent, cls,
                    accept_files, has_data, initial_data, fields, ignore_fields,
                    pc, fault >>
    /\ UNCHANGED << render_vars, tracking_vars, settings_vars >>

\* the end of to_internal_value: raise the errors, or return ret to validate
ToInternalValueReturn ==
    /\ pc = "to_internal_value"
    /\ idx > Len(fields)
    /\ IF DOMAIN errors # {}
           THEN /\ pc' = "invalid"
                /\ ret' = EmptyMap
                /\ UNCHANGED << errors, idx >>
       ELSE /\ pc' = "validate"
            /\ idx' = 1
            /\ errors' = NoErrors
            /\ UNCHANGED ret
    /\ UNCHANGED << template, has_instance, store, referral, parent, cls,
                    accept_files, has_data, initial_data, fields, ignore_fields,
                    fault >>
    /\ UNCHANGED << render_vars, tracking_vars, settings_vars >>

\* one iteration of the loop of validate
ValidateField ==
    /\ pc = "validate"
    /\ idx <= Len(template.fields)
    /\ LET f == template.fields[idx]
           is_visible == IF is_conditional_field(cls, f)
                             THEN visibility_condition_met(cls, f) ELSE "True"
       IN  IF is_visible = "RecursionError"
               THEN /\ pc' = "fault"
                    /\ fault' = "RecursionError"
                    /\ UNCHANGED << errors, idx >>
           ELSE /\ errors' = ValidateStep(cls, f, ret, errors, is_visible = "True")
                /\ idx' = idx + 1
                /\ UNCHANGED << pc, fault >>
    /\ UNCHANGED << template, has_instance, store, referral, parent, cls,
                    accept_files, has_data, initial_data, fields, ignore_fields,
                    ret >>
    /\ UNCHANGED << render_vars, tracking_vars, settings_vars >>

\* the end of validate: raise the errors, or return attrs
ValidateReturn ==
    /\ pc = "validate"
    /\ idx > Len(template.fields)
    /\ IF DOMAIN errors # {}
           THEN pc' = "invalid" /\ ret' = EmptyMap
       ELSE pc' = "valid" /\ UNCHANGED ret
    /\ UNCHANGED << template, has_instance, store, referral, parent, cls,
                    accept_files, has_data, initial_data, fields, ignore_fields,
                    idx, errors, fault >>
    /\ UNCHANGED << render_vars, tracking_vars, settings_vars >>

\* save() on a valid serializer bound to a Form: update(instance, validated_data)
Update ==
    /\ pc = "valid"
    /\ has_instance
    /\ store' = update(store, ret, ItemNames(fields, ret, 1), ignore_fields, 1)
    /\ pc' = "saved"
    /\ UNCHANGED << template, has_instance, referral, parent, cls, accept_files,
                    has_data, initial_data, fields, ignore_fields, idx, ret,
                    errors, fault >>
    /\ UNCHANGED << render_vars, tracking_vars, settings_vars >>

\* update() ends with an exception at entry k of validated_data: get_field or
\* save raised; the entries before k have been saved one by one
UpdateFails ==
    /\ pc = "valid"
    /\ has_instance
    /\ LET items == ItemNames(fields, ret, 1)
       IN  \E k \in 1..Len(items) :
              /\ items[k] \notin SeqToSet(ignore_fields)
              /\ store' = update(store, ret, SubSeq(items, 1, k - 1), ignore_fields, 1)
    /\ pc' = "update_failed"
    /\ UNCHANGED << template, has_instance, referral, parent, cls, accept_files,
                    has_data, initial_data, fields, ignore_fields, idx, ret,
                    errors, fault >>
    /\ UNCHANGED << render_vars, tracking_vars, settings_vars >>

\* the end of a to_representation call of class c
Rendered(c, tree) ==
    /\ representator' = c
    /\ IF tree.fault # ""
           THEN /\ pc' = "fault"
                /\ fault' = tree.fault
                /\ UNCHANGED out
       ELSE /\ pc' = "rendered"
            /\ out' = tree.sections
            /\ UNCHANGED fault

RenderWith(c) ==
    IF c = TemplateMetaSyntaxVersionError
        THEN /\ pc' = "fault"
             /\ fault' = TemplateMetaSyntaxVersionError
             /\ UNCHANGED << representator, out >>
    ELSE Rendered(c, to_representation(c, store, 1))

\* get_form_representator_class_for(template) and, with the class it returns,
\* to_representation(instance) on a representator built without data
Render ==
    /\ pc = "start"
    /\ has_instance
    /\ RenderWith(get_form_representator_class_for(template))
    /\ UNCHANGED << template, has_instance, store, referral, parent, cls,
                    accept_files, has_data, initial_data, fields, ignore_fields,
                    idx, ret, errors, resubmitted >>
    /\ UNCHANGED << tracking_vars, settings_vars >>

\* the client sends back the values it was shown: a serializer on the same
\* Form whose data are the emitted values of the non-switch fields
Resubmit ==
    /\ pc = "rendered"
    /\ cls' = get_form_serializer_class_for(template)
    /\ accept_files' \in (IF HasFileField(template) THEN BOOLEAN ELSE {FALSE})
    /\ has_data' = TRUE
    /\ initial_data' = RenderedValues(out)
    /\ resubmitted' = TRUE
    /\ pc' = "init"
    /\ UNCHANGED << template, has_instance, store, referral, parent, fields,
                    ignore_fields, idx, ret, errors, fault, representator, out >>
    /\ UNCHANGED << tracking_vars, settings_vars >>

\* the request is over: the next one builds a new serializer on the same Form
Discard ==
    /\ pc \in {"valid", "invalid", "saved", "update_failed", "rendered"}
    /\ cls' = ""
    /\ accept_files' = FALSE
    /\ has_data' = FALSE
    /\ initial_data' = EmptyMap
    /\ fields' = <<>>
    /\ ignore_fields' = <<>>
    /\ idx' = 0
    /\ ret' = EmptyMap
    /\ errors' = NoErrors
    /\ representator' = ""
    /\ out' = <<>>
    /\ resubmitted' = FALSE
    /\ pc' = "start"
    /\ UNCHANGED << template, has_instance, store, referral, parent, fault >>
    /\ UNCHANGED << tracking_vars, settings_vars >>

Next ==
    \/ GetFormSerializer
    \/ GetFields
    \/ ToInternalValueField
    \/ ToInternalValueReturn
    \/ ValidateField
    \/ ValidateReturn
    \/ Update
    \/ UpdateFails
    \/ Render
    \/ Resubmit
    \/ Discard

Spec == Init /\ [][Next]_vars

\* a form at rest, while the tracking side or Settings runs
RestTemplate == CHOOSE t \in Templates : TRUE
RestContext == CHOOSE ctx \in Contexts(RestTemplate) : TRUE

FormsAtRest ==
    /\ template = RestTemplate
    /\ has_instance = RestContext.has_instance
    /\ referral = RestContext.referral
    /\ parent = RestContext.parent
    /\ InitForms

InitModels ==
    /\ FormsAtRest
    /\ InitTracking
    /\ InitSettings

\* requests on the threads and the saves they make
SpecTracking == InitModels /\ [][NextTracking]_vars

\* calls on Settings objects
SpecSettings == InitModels /\ [][NextSettings]_vars

(***************************************************************************)
(* Properties.                                                             *)
(***************************************************************************)
\* the template fields the loop of validate has already handled
Handled == {template.fields[j] : j \in 1..(IF idx - 1 < Len(template.fields)
                                               THEN idx - 1 ELSE Len(template.fields))}

\* the field was submitted with no value: absent, null or the empty string
NoValueSubmitted(name) ==
    \/ name \notin DOMAIN initial_data
    \/ initial_data[name] \in {PyNone, PyStr("")}

HasError(name, m) == name \in DOMAIN errors /\ m \in SeqToSet(errors[name])

\* a field is conditional: by its visibility clause, in V1.1 also by parent_field
Conditional(f) ==
    \/ f.visibility.shape # "none"
    \/ template.tmsv = V11 /\ f.has_parent_field

\* C1: in validate(), a conditional field whose meta.required is true and that
\* was submitted with no value gets a required error if the visibility
\* evaluator reports it visible, and gets none if it reports it not visible.
C1_ConditionalRequired ==
    pc = "validate" =>
        \A f \in Handled :
            (Conditional(f) /\ f.required = "true" /\ NoValueSubmitted(f.name)) =>
                (HasError(f.name, FIELD_REQUIRED_MSG)
                    <=> visibility_condition_met(cls, f) = "True")

C1_Witness ==
    /\ pc = "validate"
    /\ \E f \in Handled :
          /\ Conditional(f) /\ f.required = "true" /\ NoValueSubmitted(f.name)
          /\ visibility_condition_met(cls, f) = "True"
          /\ HasError(f.name, FIELD_REQUIRED_MSG)
    /\ \E f \in Handled :
          /\ Conditional(f) /\ f.required = "true" /\ NoValueSubmitted(f.name)
          /\ visibility_condition_met(cls, f) = "False"
          /\ ~HasError(f.name, FIELD_REQUIRED_MSG)

\* C2: for a V1.0 required field with clause [ctrl, ==, true], submitting
\* ctrl = false and no value for the field yields no required error for it,
\* whatever value of ctrl the Form instance stores.
C2_SubmittedControlWins ==
    (pc = "validate" /\ cls = "FormSerializerV10") =>
        \A f \in Handled :
            ( /\ f.required = "true"
              /\ f.visibility.shape = "triplex"
              /\ f.visibility.cond[2] = "=="
              /\ f.visibility.cond[3] = PyTrue
              /\ f.visibility.cond[1] \in DOMAIN initial_data
              /\ initial_data[f.visibility.cond[1]] = PyFalse
              /\ NoValueSubmitted(f.name) )
            => ~HasError(f.name, FIELD_REQUIRED_MSG)

\* one triplex of a clause group holds: against the bound Referral (its
\* Referrer), else against the parent serializer's data, else not at all;
\* a template triplex against the current value of the field it names
GroupTriplexHolds(group, c) ==
    CASE group = "referral" ->
            IF referral.bound THEN TriplexHolds(Get(referral.attrs, c[1]), c)
            ELSE parent.present /\ TriplexHolds(RetrieveParent(c[1]), c)
      [] group = "referrer" ->
            IF referral.bound /\ referral.has_referrer
                THEN TriplexHolds(Get(referral.referrer, c[1]), c)
            ELSE parent.present /\ TriplexHolds(RetrieveParent("referrer__" \o c[1]), c)
      [] group = "template" ->
            TriplexHolds(IF IsSwitchRef(c[1]) THEN PyTrue ELSE RetrieveSelf(c[1]), c)

GroupOf(clause, group) ==
    CASE group = "referral" -> clause.referral
      [] group = "referrer" -> clause.referrer
      [] group = "template" -> clause.template

\* every triplex of every present clause group holds
ClauseHolds(clause) ==
    \A group \in clause.groups :
        \A j \in 1..Len(GroupOf(clause, group)) :
            GroupTriplexHolds(group, GroupOf(clause, group)[j])

\* the parent_field references reachable from a field all name fields of the
\* template and never come back to a field already passed
RECURSIVE ChainEnds(_, _)
ChainEnds(name, seen) ==
    /\ HasField(template, name)
    /\ name \notin seen
    /\ LET f == FieldByName(template, name)
       IN  f.has_parent_field => ChainEnds(f.parent_field, seen \cup {name})

\* C3: in V1.1, visibility_condition_met(field, clause) is true exactly when
\* every triplex of every present clause group holds, the field's section is
\* visible under the section's own clause, and the parent field, if one is
\* declared, is visible by the same rule.
C3_VisibleIffClauseSectionParent ==
    cls = "FormSerializerV11" =>
        \A j \in 1..Len(template.fields) :
            LET f == template.fields[j]
                own == visibility_condition_met11(FieldObj(f.name), f.visibility, 1)
                up == FieldByName(template, f.parent_field)
            IN  ChainEnds(f.name, {}) =>
                    ( own = "True" <=>
                        /\ ClauseHolds(f.visibility)
                        /\ HasSection(template, f.section_id) =>
                               ClauseHolds(SectionById(template, f.section_id).visibility)
                        /\ f.has_parent_field =>
                               visibility_condition_met11(FieldObj(up.name), up.visibility, 1)
                                   = "True" )
                    /\ own \in {"True", "False"}

\* a field whose own clause and section clause hold, hidden by its parent field
C3_Witness ==
    /\ cls = "FormSerializerV11"
    /\ \E j \in 1..Len(template.fields) :
          LET f == template.fields[j]
          IN  /\ ChainEnds(f.name, {})
              /\ f.has_parent_field
              /\ f.visibility.groups # {}
              /\ ClauseHolds(f.visibility)
              /\ ClauseHolds(SectionById(template, f.section_id).visibility)
              /\ visibility_condition_met11(FieldObj(f.name), f.visibility, 1) = "False"

\* the faults the code raises for a template it cannot interpret
ConfigurationFaults == {TemplateMetaSyntaxVersionError}

\* C4: the recursive visibility check terminates for every template; on a
\* parent_field cycle the operation ends with a configuration fault and the
\* recursion never runs until the interpreter stops it.
C4_CycleIsConfigurationFault ==
    pc = "fault" => fault \in ConfigurationFaults

\* the positions at which a serializer exists
SerializerStates ==
    {"init", "to_internal_value", "validate", "valid", "invalid", "saved", "update_failed"}

\* C5: the resolver returns the V1.0 strategy for a template tagged V1.0 and
\* the V1.1 strategy for one tagged V1.1; for any other tag it fails with the
\* template-version error, returns no strategy, and the call ends before a
\* field of the template is built or a value is read or written.
C5_VersionResolver ==
    /\ template.tmsv = V10 =>
          /\ get_form_representator_class_for(template) = "FormRepresentatorV10"
          /\ pc \in SerializerStates => cls = "FormSerializerV10"
          /\ pc = "rendered" => representator = "FormRepresentatorV10"
    /\ template.tmsv = V11 =>
          /\ get_form_representator_class_for(template) = "FormRepresentatorV11"
          /\ pc \in SerializerStates => cls = "FormSerializerV11"
          /\ pc = "rendered" => representator = "FormRepresentatorV11"
    /\ template.tmsv \notin {V10, V11} =>
          /\ get_form_representator_class_for(template) = TemplateMetaSyntaxVersionError
          /\ cls = "" /\ representator = "" /\ out = <<>>
          /\ pc \in {"start", "fault"}
          /\ pc = "fault" => fault = TemplateMetaSyntaxVersionError
          /\ fields = <<>> /\ DOMAIN ret = {} /\ DOMAIN errors = {}
          /\ has_instance => store = NewForm(template)

C5_Witness ==
    /\ template.tmsv \notin {V10, V11}
    /\ pc = "fault"
    /\ fault = TemplateMetaSyntaxVersionError

\* C6: a built field's `required` is meta.required (false when absent) if the
\* field is not conditional and false if it is; `allow_null` is
\* meta.validation.allow_null if given and the negation of that `required`
\* otherwise.
C6_BuiltRequired ==
    \A j \in 1..Len(fields) :
        HasField(template, fields[j].field_name) =>
            LET f == FieldByName(template, fields[j].field_name)
                kw == fields[j].kwargs
            IN  /\ kw.required = (IF Conditional(f) THEN FALSE ELSE f.required = "true")
                /\ kw.allow_null = (IF f.allow_null = "absent" THEN ~kw.required
                                    ELSE f.allow_null = "true")

\* a V1.1 field that is conditional by parent_field alone, required in meta
C6_Witness ==
    \E j \in 1..Len(fields) :
        /\ HasField(template, fields[j].field_name)
        /\ LET f == FieldByName(template, fields[j].field_name)
           IN  /\ f.has_parent_field /\ f.visibility.shape = "none"
               /\ f.required = "true"
               /\ ~fields[j].kwargs.required
               /\ fields[j].kwargs.allow_null

\* C7: in validate(), for a multi-checkbox submitted as a list: every element
\* that is not an option value yields a "not a valid option" error naming it;
\* an empty list with allow_blank false yields a required error; a non-empty
\* list of option values only yields no error for the field.
C7_MultiCheckbox ==
    pc = "validate" =>
        \A f \in Handled :
            (f.is_multi_checkbox /\ f.name \in DOMAIN ret /\ ret[f.name].k = "list") =>
                LET values == ret[f.name].l
                    allowed == SeqToSet(f.options)
                IN  /\ \A e \in SeqToSet(values) \ allowed :
                           HasError(f.name, NotAValidOption(e))
                    /\ (values = <<>> /\ f.allow_blank = "false") =>
                           HasError(f.name, FIELD_REQUIRED_MSG)
                    /\ (values # <<>> /\ SeqToSet(values) \subseteq allowed) =>
                           f.name \notin DOMAIN errors

C7_Witness ==
    /\ pc = "validate"
    /\ \E f \in Handled :
          /\ f.is_multi_checkbox /\ f.name \in DOMAIN ret /\ ret[f.name].k = "list"
          /\ \E e \in SeqToSet(ret[f.name].l) :
                e \notin SeqToSet(f.options) /\ HasError(f.name, NotAValidOption(e))
          /\ \E e \in SeqToSet(ret[f.name].l) : e \in SeqToSet(f.options)

\* C8: one validate call reports the errors of all fields together: a field
\* failing its own check in to_internal_value does not keep the cross-field
\* rules of validate() from reporting the errors of the other fields.
C8_ErrorsOfAllFields ==
    pc = "invalid" =>
        \A j \in 1..Len(template.fields) :
            LET f == template.fields[j]
            IN  ( /\ Conditional(f) /\ f.required = "true"
                  /\ f.name \notin DOMAIN initial_data
                  /\ visibility_condition_met(cls, f) = "True" )
                => HasError(f.name, FIELD_REQUIRED_MSG)

Disjoint == DOMAIN errors \cap DOMAIN ret = {}

\* C9 as claimed: at every point of a validate call, in the per-field phase and
\* in the cross-field phase, no field is in the error map and in the validated map.
C9_DisjointAtEveryPoint ==
    pc \in {"to_internal_value", "validate"} => Disjoint

\* C9 as amended: at every point of the per-field phase no field is in both
\* maps, and the call ends with errors and no validated map or with a validated
\* map and no errors.
C9_DisjointPerFieldAndResult ==
    /\ pc = "to_internal_value" => Disjoint
    /\ pc = "invalid" => (DOMAIN ret = {} /\ DOMAIN errors # {})
    /\ pc \in {"valid", "saved"} => DOMAIN errors = {}

C9_Witness ==
    /\ pc = "to_internal_value"
    /\ idx > Len(fields)
    /\ DOMAIN errors # {}
    /\ DOMAIN ret # {}

\* the names get_fields() built that are no field of the template
PseudoFields == {fields[j].field_name : j \in 1..Len(fields)} \ FieldNames(template)

\* C10: update writes exactly the values of validated_data whose names are not
\* in ignore_fields; the file and note pseudo-fields are all in ignore_fields
\* and are not written; every other stored value is unchanged and no field
\* is deleted.
C10_UpdateFrame ==
    [][ (pc = "valid" /\ pc' = "saved") =>
            /\ PseudoFields \subseteq SeqToSet(ignore_fields)
            /\ DOMAIN store' = DOMAIN store
            /\ \A name \in DOMAIN store :
                  store'[name] = IF name \in DOMAIN ret \ SeqToSet(ignore_fields)
                                     THEN ret[name] ELSE store[name]
      ]_vars

\* an update whose validated_data holds a file, its note and a stored field
C10_Witness ==
    /\ pc = "saved"
    /\ \E j \in 1..Len(fields) :
          fields[j].class = "FileField" /\ fields[j].field_name \in DOMAIN ret
    /\ \E name \in DOMAIN ret \cap DOMAIN store : store[name] # PyNone
    /\ \E name \in DOMAIN store \ DOMAIN ret : TRUE

\* C11: the update writer is atomic: after any update call, also one that
\* failed at its k-th entry, the field store holds all of the call's writes
\* or none of them.
C11_UpdateAtomic ==
    [][ (pc = "valid" /\ pc' \in {"saved", "update_failed"}) =>
            \/ store' = store
            \/ store' = update(store, ret, ItemNames(fields, ret, 1), ignore_fields, 1)
      ]_vars

\* the entries of the rendered tree for the field of this name
EntriesOf(name) ==
    {e \in SeqToSet(Entries(out, 1)) : e.name = name}

\* C12: a field marked is_switch gets no serializer field and no validated
\* value, its stored value is never written, whatever data is submitted
\* (data naming the switch included), and the renderer shows for it the result
\* of get_switch_value on the current field values.
C12_SwitchNeverPersisted ==
    \A j \in 1..Len(template.fields) :
        LET f == template.fields[j]
        IN  f.is_switch = "true" =>
                /\ \A h \in 1..Len(fields) : fields[h].field_name # f.name
                /\ f.name \notin DOMAIN ret
                /\ has_instance => store[f.name] = PyNone
                /\ pc = "rendered" =>
                       \A e \in EntriesOf(f.name) :
                           /\ e.has_value
                           /\ e.value = PyBool(get_switch_value(representator,
                                                   template.fields, f.name, store))

\* an update done for data that named a switch
C12_Witness ==
    /\ pc = "saved"
    /\ SwitchNames(template) \cap DOMAIN initial_data # {}
    /\ \E name \in DOMAIN store : store[name] # PyNone

\* the ids of the sections a rendered tree holds, in its order
EmittedSections == [j \in 1..Len(out) |-> out[j].id]

\* the ids of the template's sections whose visibility clause holds, in
\* template order
RECURSIVE VisibleSections(_)
VisibleSections(j) ==
    IF j > Len(template.sections) THEN <<>>
    ELSE (IF ClauseHolds(template.sections[j].visibility)
              THEN << template.sections[j].id >> ELSE <<>>)
         \o VisibleSections(j + 1)

\* C13: the sections a V1.1 rendering emits are exactly the sections whose
\* visibility clause holds, in template order, whatever the section's display
\* visibility behaviour is (the default `persist` included).
C13_HiddenSectionsOmitted ==
    (pc = "rendered" /\ representator = "FormRepresentatorV11") =>
        EmittedSections = VisibleSections(1)

\* the switch fields of the template
Switches == {f \in SeqToSet(template.fields) : f.is_switch = "true"}

\* C14: V1.1 get_switch_value is true iff some field whose parent_field is the
\* switch's name has a non-null value (false, 0, the empty string and the empty
\* list count as values), and false when the switch has no dependent field.
C14_SwitchValueV11 ==
    (pc = "rendered" /\ representator = "FormRepresentatorV11") =>
        \A f \in Switches :
            \A e \in EntriesOf(f.name) :
                e.value = PyBool(\E d \in SeqToSet(template.fields) :
                                    /\ d.has_parent_field
                                    /\ d.parent_field = f.name
                                    /\ store[d.name] # PyNone)

\* the V1.0 fields whose visibility triplex names the switch
DependentsV10(name) ==
    {d \in SeqToSet(template.fields) :
        d.visibility.shape = "triplex" /\ d.visibility.cond[1] = name}

\* the triplex of a dependent field with the switch taken as true
HoldsWithSwitchOn(d) ==
    build_visibility_equation(PyStr("True"), d.visibility.cond[2], d.visibility.cond[3])

\* C15: V1.0 get_switch_value is true iff some field whose visibility triplex
\* names the switch has its condition true (the switch taken as true) and a
\* non-null value, or its condition false and a null value; it is false when
\* no field names the switch; every rendering of the same field values shows
\* the same boolean.
C15_SwitchValueV10 ==
    (pc = "rendered" /\ representator = "FormRepresentatorV10") =>
        \A f \in Switches :
            \A e \in EntriesOf(f.name) :
                e.value = PyBool(\E d \in DependentsV10(f.name) :
                                    \/ HoldsWithSwitchOn(d) /\ store[d.name] # PyNone
                                    \/ ~HoldsWithSwitchOn(d) /\ store[d.name] = PyNone)

\* a switch shown as on, with a dependent field whose condition is false and
\* one whose condition is true, both holding a value; next to it a switch
\* without dependent fields, shown as off
C15_Witness ==
    /\ pc = "rendered" /\ representator = "FormRepresentatorV10"
    /\ \E f \in Switches :
          /\ \E e \in EntriesOf(f.name) : e.value = PyTrue
          /\ \E d \in DependentsV10(f.name) :
                ~HoldsWithSwitchOn(d) /\ store[d.name] # PyNone
          /\ \E d \in DependentsV10(f.name) :
                HoldsWithSwitchOn(d) /\ store[d.name] # PyNone
    /\ \E f \in Switches :
          DependentsV10(f.name) = {} /\ \E e \in EntriesOf(f.name) : e.value = PyFalse

\* the entry of __value_attributes applies to the stored value
Applies(entry, value) ==
    \/ entry.key = "__all"
    \/ entry.key = "__empty" /\ value = PyNone
    \/ PyEq(PyStr(entry.key), value)

\* the keys an attribute list sets
AttrKeys(attrs) == {attrs[j][1] : j \in 1..Len(attrs)}

\* the keys build_field_repr_clause sets before it merges __value_attributes
ExplicitKeys(f) ==
    {"columns", "value"} \cup (IF "label" \in f.representation.keys THEN {"label"} ELSE {})

\* C16: in the representation object of a rendered field, a key merged from
\* __value_attributes never replaces columns, label or value set before the
\* merge, and an attribute merged from an entry is not replaced by a later
\* entry.
C16_MergeKeepsEarlierKeys ==
    pc = "rendered" =>
        \A f \in SeqToSet(template.fields) :
            \A e \in EntriesOf(f.name) :
                ("__value_attributes" \in f.representation.keys) =>
                    LET entries == f.representation.value_attributes
                        value == store[f.name]
                        unmerged == build_field_repr_clause(
                                        [f.representation EXCEPT
                                            !.keys = @ \ {"__value_attributes"}],
                                        f, value)
                    IN  /\ \A key \in ExplicitKeys(f) :
                               e.representation[key] = unmerged[key]
                        /\ \A i \in 1..Len(entries) :
                               Applies(entries[i], value) =>
                                   \A h \in 1..Len(entries[i].attrs) :
                                       LET a == entries[i].attrs[h]
                                       IN  ( /\ a[1] \notin ExplicitKeys(f)
                                             /\ \A g \in 1..(i - 1) :
                                                    Applies(entries[g], value) =>
                                                        a[1] \notin AttrKeys(entries[g].attrs) )
                                           => e.representation[a[1]] = a[2]

\* the visibility clauses of the template: of its fields and of its sections
TemplateClauses ==
    {f.visibility : f \in SeqToSet(template.fields)}
    \cup {sec.visibility : sec \in SeqToSet(template.sections)}

\* no fallback data for an attribute of the Referral: no parent serializer, or
\* one whose submitted data has no entry for it
NoFallbackData(attribute) ==
    \/ ~parent.present
    \/ attribute \notin DOMAIN parent.initial_data

\* C17: in V1.1, with no Referral bound, a referral clause group one of whose
\* triplexes names an attribute without fallback data is not visible, for
\* every comparison sign of the triplex.
C17_NoReferralDataNotVisible ==
    (cls = "FormSerializerV11" /\ ~referral.bound) =>
        \A clause \in TemplateClauses :
            ( /\ "referral" \in clause.groups
              /\ \E j \in 1..Len(clause.referral) :
                     NoFallbackData(clause.referral[j][1]) )
            => ~referral_visibility_condition_met(clause)

\* a field's parent_field names no field of the template
MissingParent ==
    \E f \in SeqToSet(template.fields) :
        f.has_parent_field /\ ~HasField(template, f.parent_field)

\* C18: for a V1.1 template with a parent_field that names no field, neither
\* validate nor render completes: no validated map and no rendered tree is
\* produced.
C18_MissingParentIsFault ==
    (template.tmsv = V11 /\ MissingParent) =>
        /\ pc \notin {"valid", "saved", "rendered"}
        /\ out = <<>>

\* __visibility_behaviour of a field or section record, `persist` when absent
BehaviourOf(x) == IF x.repr_behaviour = "absent" THEN "persist" ELSE x.repr_behaviour

\* a section is display-visible by its own behaviour
SectionDisplayed(sec) ==
    CASE BehaviourOf(sec) = "follow_meta" -> ClauseHolds(sec.visibility)
      [] BehaviourOf(sec) = "custom" -> ClauseHolds(sec.repr_visibility)
      [] OTHER -> TRUE

\* the validation-time rule applied to a clause of field f: the clause, the
\* clause of f's section and f's parent chain
ValidationRule(f, clause) ==
    /\ ClauseHolds(clause)
    /\ HasSection(template, f.section_id) =>
           ClauseHolds(SectionById(template, f.section_id).visibility)
    /\ f.has_parent_field =>
           LET up == FieldByName(template, f.parent_field)
           IN  visibility_condition_met11(FieldObj(up.name), up.visibility, 1) = "True"

\* C19: in a V1.1 rendering, a field of an emitted section is in the output
\* iff, by its __visibility_behaviour: `persist` - its section and its parent
\* field, if any, are display-visible, its own clause not being consulted;
\* `follow_meta` - its visibility clause holds under the validation-time rule;
\* `custom` - its representation.__visibility clause holds under that rule.
C19_FieldDisplayVisibility ==
    (pc = "rendered" /\ representator = "FormRepresentatorV11") =>
        \A k \in 1..Len(out) :
            \A f \in SeqToSet(template.fields) :
                (f.section_id = out[k].id /\ ChainEnds(f.name, {})) =>
                    ( (\E e \in SeqToSet(out[k].fields) : e.name = f.name)
                      <=>
                      CASE BehaviourOf(f) = "persist" ->
                              /\ SectionDisplayed(SectionById(template, f.section_id))
                              /\ f.has_parent_field =>
                                     visible_in_representation(FieldObj(f.parent_field), 1)
                                         = "True"
                        [] BehaviourOf(f) = "follow_meta" ->
                              ValidationRule(f, f.visibility)
                        [] BehaviourOf(f) = "custom" ->
                              ValidationRule(f, f.repr_visibility) )

\* a nested `persist` field that is shown although its own clause does not hold
C19_Witness ==
    /\ pc = "rendered" /\ representator = "FormRepresentatorV11"
    /\ \E f \in SeqToSet(template.fields) :
          /\ BehaviourOf(f) = "persist"
          /\ f.has_parent_field
          /\ f.visibility.groups # {}
          /\ ~ClauseHolds(f.visibility)
          /\ EntriesOf(f.name) # {}

\* a `follow_meta` or `custom` field left out of an emitted section
FieldOmittedByBehaviour ==
    /\ pc = "rendered" /\ representator = "FormRepresentatorV11"
    /\ \E k \in 1..Len(out) :
          \E f \in SeqToSet(template.fields) :
              /\ f.section_id = out[k].id
              /\ BehaviourOf(f) # "persist"
              /\ EntriesOf(f.name) = {}

AllFieldsEmittedWithValue ==
    \A f \in SeqToSet(template.fields) :
        f.is_switch # "true" =>
            /\ f.name \in DOMAIN RenderedValues(out)
            /\ RenderedValues(out)[f.name] \notin {PyNone, PyStr("")}

OwnUser(t) == IF handling[t] # NoRequest THEN handling[t].user ELSE "Exception"

\* C21: get_acting_user called on a thread between that thread's
\* process_request and process_response returns the user of the thread's own
\* request, whatever the other threads handle; called on a thread that handles
\* no request (before the first, after process_response) it raises.
C21_ActingUserPerThread ==
    call.op = "get_acting_user" => call.result = OwnUser(call.thread)

\* get_acting_user answered on one thread while another thread handles a
\* request of another user
C21_Witness ==
    /\ call.op = "get_acting_user"
    /\ call.result \in Users
    /\ \E t \in Threads \ {call.thread} :
          handling[t] # NoRequest /\ handling[t].user # call.result

\* get_acting_user raised on a thread that handles no request, while
\* another thread handles one
ActingUserRaisedAfterResponse ==
    /\ call.op = "get_acting_user"
    /\ call.result = "Exception"
    /\ \E t \in Threads \ {call.thread} : handling[t] # NoRequest

\* the step is a save() that returned
SaveReturned == now' = now + 1 /\ call'.op = "save" /\ call'.result = "saved"

\* what a save() of instance i on thread t that returned did to the fields
TrackedBySave(t, i) ==
    /\ IF instances[i].adding
           THEN /\ instances'[i].added_at = now
                /\ instances'[i].added_by = IF instances[i].added_by = NoUser
                                                THEN handling[t].user
                                            ELSE instances[i].added_by
                /\ instances'[i].added_by \in Users
                /\ instances'[i].updated_at = NoTime
                /\ instances'[i].updated_by = NoUser
       ELSE /\ instances'[i].updated_at = now
            /\ instances'[i].updated_by = handling[t].user
            /\ instances'[i].updated_by \in Users
            /\ instances'[i].added_at = instances[i].added_at
            /\ instances'[i].added_by = instances[i].added_by
            /\ table'[instances[i].pk].added_at = table[instances[i].pk].added_at
            /\ table'[instances[i].pk].added_by = table[instances[i].pk].added_by
    /\ table'[instances'[i].pk] = Row(instances'[i])

\* C22: the save that creates the row sets added_at, sets added_by to the
\* acting user only if no added_by was given, and leaves updated_at and
\* updated_by unset; every later save sets updated_at and updated_by to the
\* acting user of that save and leaves added_at and added_by as they were;
\* the row the save writes holds the fields of the instance.
C22_TrackAddedUpdated ==
    [][SaveReturned => TrackedBySave(call'.thread, call'.inst)]_vars

\* a later save has just returned on an instance whose creator is another
\* user than the one who updates it
C22_Witness ==
    /\ call.op = "save"
    /\ call.result = "saved"
    /\ instances[call.inst].added_by \in Users
    /\ instances[call.inst].updated_by \in Users \ {instances[call.inst].added_by}
    /\ instances[call.inst].updated_at > instances[call.inst].added_at
    /\ table[instances[call.inst].pk] = Row(instances[call.inst])

\* a creation has just returned that kept the creator it was given, on a
\* thread whose request is of another user
CreatorKept ==
    /\ call.op = "save"
    /\ call.result = "saved"
    /\ instances[call.inst].updated_at = NoTime
    /\ handling[call.thread] # NoRequest
    /\ instances[call.inst].added_by # handling[call.thread].user

\* the step is a load() made while the table holds the row: it returns that
\* row and writes nothing
LoadReturnsTheRow ==
    settings_call'.op = "load" /\ 1 \in DOMAIN settings_table
        => /\ settings_call'.result = "returned"
           /\ settings'[settings_call'.obj] = SettingsFromDb(1, settings_table[1])
           /\ settings_table' = settings_table

\* C23: after any load(), save() or delete() on Settings objects, objects
\* built with another primary key included, the table holds at most one row
\* and its primary key is 1; no call removes the row, delete() changes
\* nothing, and once the row exists load() returns it.
C23_SettingsSingleton ==
    [][/\ DOMAIN settings_table' \subseteq {1}
       /\ DOMAIN settings_table \subseteq DOMAIN settings_table'
       /\ settings_call'.op = "delete" => settings_table' = settings_table
       /\ LoadReturnsTheRow]_vars

\* two objects, one of them just saved, stand for the one row although they
\* hold different values
C23_Witness ==
    /\ settings_call.op = "save"
    /\ settings_call.result = "returned"
    /\ DOMAIN settings_table = {1}
    /\ \A o \in SettingsIds : settings[o].exists /\ ~settings[o].adding /\ settings[o].pk = 1
    /\ \E o \in SettingsIds : settings[o].staff_emails # settings_table[1].staff_emails

\* delete() has just returned on an object of the row, and the row is there
DeleteKeptTheRow ==
    /\ settings_call.op = "delete"
    /\ settings[settings_call.obj].pk = 1
    /\ ~settings[settings_call.obj].adding
    /\ 1 \in DOMAIN settings_table
====
